---- MODULE Spec2Model ----
(***************************************************************************)
(* Price acquisition layer of MARABTCTracking.                             *)
(*                                                                         *)
(*   providers.py            TTLCache, _get_json, the four providers and   *)
(*                           PriceRouter (ordered fallback).               *)
(*   robust_yahoo_client.py  RobustYahooClient: circuit breaker, rate      *)
(*                           limiter and retry loop of _make_request.      *)
(*                                                                         *)
(* Time is time.time() in whole seconds.  SpecRouter runs the router,      *)
(* SpecClient runs one RobustYahooClient instance.                         *)
(***************************************************************************)
EXTENDS Integers, Sequences, FiniteSets, TLC

VARIABLES
    now,                        \* time.time()
    \* ---- providers.py ----
    providers_equity,           \* PriceRouter.providers_equity (class names)
    env_keys,                   \* FMP_API_KEY / ALPHAVANTAGE_API_KEY were set
                                \* when PriceRouter() read them
    store,                      \* _cache._store : key -> entry
    rpc,                        \* position of the router call in progress
    rsymbol,                    \* its argument
    ridx,                       \* loop index into providers_equity (1-based)
    last_err,                   \* local last_err of get_equity_price
    rresult,                    \* what the call handed to its caller
    rlog,                       \* provider calls made by the call in progress
    rcalls,                     \* router calls completed
    rwaits,                     \* pauses the router's caller has made
    nhttp,                      \* HTTP requests the providers have sent
    served,                     \* the last price get_equity_price returned
    \* ---- robust_yahoo_client.py ----
    circuit_breaker_failures,
    circuit_breaker_reset_time,
    last_request_time,
    cpc,                        \* position of the _make_request call in progress
    attempt,                    \* loop variable of _make_request
    max_retries,                \* its parameter
    cresult,                    \* what _make_request handed to its caller
    clog,                       \* HTTP attempts of the call in progress
    ccalls,                     \* _make_request calls completed
    cwaits,                     \* pauses the client's caller has made
    nreq,                       \* HTTP requests the client has sent
    last_failure_at,            \* when circuit_breaker_failures last grew
    last_issued,                \* when session.get was last called
    \* ---- providers.py, TTLCache used on its own ----
    cache_sets,                 \* key -> the last set(key, val) and its time
    cache_last,                 \* the last call on _cache: the store before and after
    cache_got,                  \* the last get(key): what it returned, when,
                                \* and the last set(key, val) before it
    cache_ops,                  \* set/get calls made
    cache_waits,                \* pauses between them
    \* ---- the pickle files of the directory "cache" ----
    files,                      \* file name -> what was dumped, its mtime
    disk_saved,                 \* file name -> the object last saved, when, by whom
    disk_got,                   \* what the last reader was handed
    disk_ops,                   \* reader and writer calls made
    disk_waits,                 \* pauses between them
    \* ---- robust_yahoo_client.py: get_stock_data / get_multiple_stocks ----
    batch,                      \* the get_multiple_stocks call in progress
    \* ---- mnav_backtest.py: backtest_strategy ----
    strategy                    \* its arguments and locals, row by row

routerVars == <<providers_equity, env_keys, store, rpc, rsymbol, ridx, last_err, rresult,
                rlog, rcalls, rwaits, nhttp, served>>
clientVars == <<circuit_breaker_failures, circuit_breaker_reset_time,
                last_request_time, cpc, attempt, max_retries, cresult, clog,
                ccalls, cwaits, nreq, last_failure_at, last_issued>>
cacheVars == <<cache_sets, cache_got, cache_last, cache_ops, cache_waits>>
diskVars == <<files, disk_saved, disk_got, disk_ops, disk_waits>>
stockVars == <<batch>>
strategyVars == <<strategy>>
vars == <<now, routerVars, clientVars, cacheVars, diskVars, stockVars,
          strategyVars>>

\* ------------------------------------------------------------------ bounds
\* time.time() when the process starts (any value far from 0)
StartTime == 100
\* router calls per behaviour
MaxRouterCalls == 2
\* _make_request calls per behaviour
MaxClientCalls == 3
\* pauses between _make_request calls per behaviour
MaxClientWaits == 1
\* HTTP requests per behaviour: a call is started only when the requests it
\* may send fit
MaxRequests == 4
\* HTTP requests the get_stock_data calls may send, and get_multiple_stocks calls
MaxStockRequests == 6
MaxBatches == 1
\* rows of the MNav series backtest_strategy is given
MaxRows == 4
\* pauses between router calls per behaviour
MaxRouterWaits == 1
\* HTTP requests of the providers per behaviour: a router call is started only
\* when the requests it may send fit
MaxHttp == 5
\* seconds one HTTP exchange takes
HttpLatency == 1
\* seconds session.get takes in the client (a refused connection or a quick
\* answer, in whole seconds)
ClientLatency == 0
\* largest upstream price
MaxPrice == 1
\* TTLCache.set / TTLCache.get calls per behaviour
MaxCacheOps == 3
\* pauses between them per behaviour
MaxCacheWaits == 1
\* reads and writes of the directory "cache" per behaviour
MaxDiskOps == 3
\* pauses between them per behaviour
MaxDiskWaits == 1
\* run_backtest_for_period / analyze_stock runs per behaviour
MaxRuns == 2

\* --------------------------------------------------------- providers.py
\* TTLCache(ttl_seconds=30)
CacheTTL == 30
\* the fixed part of YahooLastResortProvider's sleep after a 429
YahooThrottleSleep == 120
\* the jitter bound of that sleep: random.uniform(0, 60)
YahooThrottleJitter == 60

Symbols == {"MARA"}
Pairs == {"BTC-USD"}
Prices == 0..MaxPrice

NoEntry == [val |-> -1, ts |-> -1]
NoError == [type |-> "None", src |-> "", status |-> 0]
MkError(t, p, s) == [type |-> t, src |-> p, status |-> s]

\* cache_key = ("fmp_quote", symbol) and the like
CachePrefix(p) ==
    CASE p = "FMPProvider" -> "fmp_quote"
      [] p = "AlphaVantageProvider" -> "av_quote"
      [] p = "YahooLastResortProvider" -> "yahoo_quote"
      [] p = "CoinbaseSpotProvider" -> "cb_spot"
CacheKey(p, sym) == <<CachePrefix(p), sym>>
CacheKeys ==
    {CacheKey(p, s) : p \in {"FMPProvider", "AlphaVantageProvider",
                             "YahooLastResortProvider"}, s \in Symbols}
    \cup {CacheKey("CoinbaseSpotProvider", s) : s \in Pairs}

\* TTLCache.get without the age test
TTLGetValueNoExpiry(st, k, t) ==
    IF st[k] = NoEntry THEN -1 ELSE st[k].val
\* TTLCache.get: the value returned (-1 stands for None)
TTLGetValue(st, k, t) ==
    IF st[k] = NoEntry THEN -1
    ELSE IF t - st[k].ts > CacheTTL THEN -1
    ELSE st[k].val
\* TTLCache.get: the store it leaves (an expired entry is popped)
\* a get that empties the whole store when it meets an expired entry
TTLGetStoreClearsAll(st, k, t) ==
    IF st[k] # NoEntry /\ t - st[k].ts > CacheTTL
    THEN [j \in DOMAIN st |-> NoEntry]
    ELSE st

TTLGetStore(st, k, t) ==
    IF st[k] # NoEntry /\ t - st[k].ts > CacheTTL
    THEN [st EXCEPT ![k] = NoEntry]
    ELSE st
\* TTLCache.set
TTLSet(st, k, v, t) == [st EXCEPT ![k] = [val |-> v, ts |-> t]]

\* What requests.get can produce for one call of _get_json.
\*   kind "exception": requests.get raised (timeout, connection reset)
\*   kind "http": a response; json_ct: content-type names json;
\*     body: "json" (starts with { or [ and parses), "jsonish" (starts with
\*     { or [ and does not parse), "text" (anything else);
\*     payload (of a parsing body): "empty", "no_price" or "price" with price;
\*     "price" means the field the provider reads is there (for Yahoo
\*     currentPrice.raw or, failing that, previousClose.raw)
Responses ==
    {[kind |-> "exception", status |-> 0, json_ct |-> FALSE, body |-> "text",
      payload |-> "empty", price |-> 0]}
    \cup {[kind |-> "http", status |-> s, json_ct |-> FALSE, body |-> "text",
           payload |-> "empty", price |-> 0] : s \in {429, 500}}
    \cup {[kind |-> "http", status |-> 200, json_ct |-> c, body |-> b,
           payload |-> "empty", price |-> 0] :
             c \in BOOLEAN, b \in {"jsonish", "text"}}
    \cup {[kind |-> "http", status |-> 200, json_ct |-> TRUE, body |-> "json",
           payload |-> pl, price |-> 0] : pl \in {"empty", "no_price"}}
    \cup {[kind |-> "http", status |-> 200, json_ct |-> c, body |-> "json",
           payload |-> "price", price |-> v] : c \in BOOLEAN, v \in Prices}

\* _get_json: the error it raises for response r, NoError when it returns r.json()
GetJsonError(p, r) ==
    IF r.kind = "exception" THEN MkError("ConnectionError", p, 0)
    ELSE IF r.status >= 400 THEN MkError("HTTPError", p, r.status)
    ELSE IF ~r.json_ct /\ r.body = "text" THEN MkError("RuntimeError", p, 0)
    ELSE IF r.body # "json" THEN MkError("JSONDecodeError", p, 0)
    ELSE NoError

\* a parser that takes whatever it is given and falls back to price 0
ParseErrorLenient(p, r) == NoError

\* The provider's own parser on the decoded payload: the error it raises,
\* NoError when it extracts a price.
ParseError(p, r) ==
    IF r.payload = "price" THEN NoError
    ELSE IF p \in {"FMPProvider", "AlphaVantageProvider"}
         THEN MkError("RuntimeError", p, 0)
    ELSE IF p = "YahooLastResortProvider"
         THEN IF r.payload = "empty" THEN MkError("KeyError", p, 0)
              ELSE MkError("RuntimeError", p, 0)
    ELSE MkError("KeyError", p, 0)

\* YahooLastResortProvider's except clause: the sleep before it re-raises e
\* (j is the jitter drawn)
ThrottleSleep(p, e, j) ==
    IF p = "YahooLastResortProvider" /\ e.type = "HTTPError" /\ e.status = 429
    THEN YahooThrottleSleep + j
    ELSE 0

\* a provider that caches whatever it parsed, a price or not
ProviderCallCachesFailure(p, sym, st, t, r, d0, j) ==
    LET k == CacheKey(p, sym)
        hit == TTLGetValue(st, k, t)
        st1 == TTLGetStore(st, k, t)
        e1 == GetJsonError(p, r)
        e2 == IF e1 = NoError THEN ParseError(p, r) ELSE e1
        d == d0 + ThrottleSleep(p, e2, j)
    IN  IF hit # -1
        THEN [ok |-> TRUE, value |-> hit, err |-> NoError, store |-> st1,
              time |-> t, http |-> FALSE]
        ELSE IF e2 = NoError
        THEN [ok |-> TRUE, value |-> r.price, err |-> NoError,
              store |-> TTLSet(st1, k, r.price, t + d), time |-> t + d,
              http |-> TRUE]
        ELSE [ok |-> FALSE, value |-> -1, err |-> e2,
              store |-> TTLSet(st1, k, 0, t + d), time |-> t + d, http |-> TRUE]

\* One provider call p.get_equity_price(sym) / p.get_crypto_price(sym) at time t
\* with upstream response r taking d0 seconds and jitter j: what it returns or
\* raises, the store and the clock it leaves, and whether it went to the
\* network.
ProviderCall(p, sym, st, t, r, d0, j) ==
    LET k == CacheKey(p, sym)
        hit == TTLGetValue(st, k, t)
        st1 == TTLGetStore(st, k, t)
        e1 == GetJsonError(p, r)
        e2 == IF e1 = NoError THEN ParseError(p, r) ELSE e1
        d == d0 + ThrottleSleep(p, e2, j)
    IN  IF hit # -1
        THEN [ok |-> TRUE, value |-> hit, err |-> NoError, store |-> st1,
              time |-> t, http |-> FALSE]
        ELSE IF e2 = NoError
        THEN [ok |-> TRUE, value |-> r.price, err |-> NoError,
              store |-> TTLSet(st1, k, r.price, t + d), time |-> t + d,
              http |-> TRUE]
        ELSE [ok |-> FALSE, value |-> -1, err |-> e2, store |-> st1,
              time |-> t + d, http |-> TRUE]

\* The circuit-breaker failures providers.py holds against provider p: the
\* provider objects keep an API key at most, PriceRouter keeps the two lists,
\* and neither imports RobustYahooClient, so there is no count to change.
RecordedFailures(p) == 0

\* a constructor that puts the keyless provider first
RouterProvidersYahooFirst(fmp_key, av_key) ==
    <<"YahooLastResortProvider">>
    \o (IF fmp_key THEN <<"FMPProvider">> ELSE <<>>)
    \o (IF av_key THEN <<"AlphaVantageProvider">> ELSE <<>>)

\* PriceRouter.__init__: the list for the two environment keys
RouterProviders(fmp_key, av_key) ==
    (IF fmp_key THEN <<"FMPProvider">> ELSE <<>>)
    \o (IF av_key THEN <<"AlphaVantageProvider">> ELSE <<>>)
    \o <<"YahooLastResortProvider">>

NoResult == [kind |-> "none", value |-> -1, err |-> NoError, cause |-> NoError]
Returned(v) == [kind |-> "value", value |-> v, err |-> NoError, cause |-> NoError]
Raised(e, c) == [kind |-> "raised", value |-> -1, err |-> e, cause |-> c]
\* raise RuntimeError(f"All equity providers failed for {symbol}: {last_err}")
AllFailed(e) == Raised(MkError("AllProvidersFailed", "PriceRouter", 0), e)


\* ------------------------------------------------ robust_yahoo_client.py
\* self.circuit_breaker_threshold
circuit_breaker_threshold == 3
\* self.circuit_breaker_timeout (30 minutes)
circuit_breaker_timeout == 1800
\* self.min_request_interval
min_request_interval == 2
\* _make_request(..., max_retries: int = 3)
DefaultMaxRetries == 3
\* _parse_retry_after's fallback
DefaultRetryAfter == 60
\* None, for a time or a count
None == -1

\* The Retry-After header of a response: absent, a text that int() rejects
\* (an HTTP date, "1.5"), or the decimal text of integer val.
RetryAfterInts == {-1, 5, circuit_breaker_timeout}
RetryAfterHeaders ==
    {[form |-> f, val |-> 0] : f \in {"absent", "text"}}
    \cup {[form |-> "int", val |-> n] : n \in RetryAfterInts}
NoHeader == [form |-> "absent", val |-> 0]

\* What self.session.get can produce for one attempt.
\*   kind "exception": a requests.exceptions.RequestException
\*   kind "http": status; app_json: content-type holds application/json;
\*     body "json" parses, "html" starts with <, "garbage" does neither
ClientResponses ==
    {[kind |-> "exception", status |-> 0, app_json |-> FALSE, body |-> "garbage",
      retry_after |-> NoHeader]}
    \cup {[kind |-> "http", status |-> 200, app_json |-> c, body |-> b,
           retry_after |-> NoHeader] :
             c \in BOOLEAN, b \in {"json", "html", "garbage"}}
    \cup {[kind |-> "http", status |-> 429, app_json |-> FALSE, body |-> "html",
           retry_after |-> h] : h \in RetryAfterHeaders}
    \cup {[kind |-> "http", status |-> s, app_json |-> FALSE, body |-> "html",
           retry_after |-> NoHeader] : s \in {403, 500}}

\* _is_circuit_breaker_open at time t
IsCircuitBreakerOpen(reset, t) == reset # None /\ reset # 0 /\ t < reset

\* a breaker that opens one failure late (> for >=)
OpenCircuitBreakerLate(f, reset, t) ==
    [failures |-> f + 1,
     reset_time |-> IF f + 1 > circuit_breaker_threshold
                    THEN t + circuit_breaker_timeout ELSE reset]

\* _open_circuit_breaker at time t: the new [failures, reset_time]
OpenCircuitBreaker(f, reset, t) ==
    [failures |-> f + 1,
     reset_time |-> IF f + 1 >= circuit_breaker_threshold
                    THEN t + circuit_breaker_timeout ELSE reset]

\* a close that resets the count and forgets circuit_breaker_reset_time
CloseCircuitBreakerCountOnly(f, reset) == [failures |-> 0, reset_time |-> reset]

\* _close_circuit_breaker: the new [failures, reset_time]
CloseCircuitBreaker(f, reset) == [failures |-> 0, reset_time |-> None]

\* _is_valid_json_response
IsValidJsonResponse(r) ==
    IF ~r.app_json THEN FALSE
    ELSE IF r.body = "html" THEN FALSE
    ELSE r.body = "json"

\* a parser whose fallback is no wait at all
ParseRetryAfterNoDefault(h) ==
    IF h.form = "absent" THEN 0
    ELSE IF h.form = "int" THEN h.val
    ELSE 0

\* _parse_retry_after
ParseRetryAfter(h) ==
    IF h.form = "absent" THEN DefaultRetryAfter
    ELSE IF h.form = "int" THEN h.val
    ELSE DefaultRetryAfter

\* the rate limiter's sleep before a request at time t
RateLimitSleep(last, t) ==
    IF t - last < min_request_interval THEN min_request_interval - (t - last) ELSE 0

RECURSIVE Pow2(_)
Pow2(n) == IF n <= 0 THEN 1 ELSE 2 * Pow2(n - 1)
\* time.sleep(2 ** attempt) unless this was the last attempt
Backoff(a, m) == IF a < m - 1 THEN Pow2(a) ELSE 0

\* The branches of _make_request's try block.  Each gives what the branch
\* records on the breaker ("success", "failure", "none"), how long it sleeps,
\* whether last_request_time was stamped, and how it leaves the iteration:
\* "return" (the response), "none" (return None), "continue", or "raise"
\* (time.sleep rejects a negative length with ValueError).

\* except requests.exceptions.RequestException
OnException(a, m) ==
    [rec |-> "none", sleep |-> Backoff(a, m), exit |-> "continue", stamp |-> FALSE]

\* status 200 and _is_valid_json_response
OnValid ==
    [rec |-> "success", sleep |-> 0, exit |-> "return", stamp |-> TRUE]

\* an invalid body that is dropped without touching the breaker
OnInvalidUnrecorded ==
    [rec |-> "none", sleep |-> 0, exit |-> "none", stamp |-> TRUE]

\* status 200 and not _is_valid_json_response
OnInvalid ==
    [rec |-> "failure", sleep |-> 0, exit |-> "none", stamp |-> TRUE]

\* status 429
On429(h) ==
    IF ParseRetryAfter(h) < 0
    THEN [rec |-> "failure", sleep |-> 0, exit |-> "raise", stamp |-> TRUE]
    ELSE [rec |-> "failure", sleep |-> ParseRetryAfter(h), exit |-> "continue",
          stamp |-> TRUE]

\* a 403 that is retried like a 429 without a wait
On403Retried ==
    [rec |-> "failure", sleep |-> 0, exit |-> "continue", stamp |-> TRUE]

\* status 403
On403 ==
    [rec |-> "failure", sleep |-> 0, exit |-> "none", stamp |-> TRUE]

\* any other status
OnOtherStatus(a, m) ==
    [rec |-> "none", sleep |-> Backoff(a, m), exit |-> "continue", stamp |-> TRUE]

\* the if/elif chain on response r, attempt a of m
Disposition(r, a, m) ==
    IF r.kind = "exception" THEN OnException(a, m)
    ELSE IF r.status = 200
    THEN IF IsValidJsonResponse(r) THEN OnValid ELSE OnInvalid
    ELSE IF r.status = 429 THEN On429(r.retry_after)
    ELSE IF r.status = 403 THEN On403
    ELSE OnOtherStatus(a, m)

\* a breaker whose count starts again at the first failure after a cooldown
RecordedRestartsAfterCooldown(rec, f, reset, t) ==
    IF rec = "success" THEN CloseCircuitBreaker(f, reset)
    ELSE IF rec = "failure"
    THEN IF reset # None /\ t >= reset
         THEN OpenCircuitBreaker(0, None, t)
         ELSE OpenCircuitBreaker(f, reset, t)
    ELSE [failures |-> f, reset_time |-> reset]

\* the breaker after an attempt that recorded rec at time t
Recorded(rec, f, reset, t) ==
    IF rec = "success" THEN CloseCircuitBreaker(f, reset)
    ELSE IF rec = "failure" THEN OpenCircuitBreaker(f, reset, t)
    ELSE [failures |-> f, reset_time |-> reset]

\* a breaker that stays shut after its cooldown until a success clears it
BreakerBlocksUntilSuccess(a, reset, t) == reset # None /\ reset # 0

\* a check made once, before the first attempt only
BreakerBlocksFirstOnly(a, reset, t) == a = 0 /\ IsCircuitBreakerOpen(reset, t)

\* the check at the top of each iteration: skip the request?
BreakerBlocks(a, reset, t) == IsCircuitBreakerOpen(reset, t)

\* ------------------------------------------------------- router actions
\* no equity price returned yet
NoServed == [symbol |-> "", price |-> -1, at |-> -1]

RouterInit ==
    /\ env_keys \in [fmp : BOOLEAN, av : BOOLEAN]
    /\ providers_equity = RouterProviders(env_keys.fmp, env_keys.av)
    /\ store = [k \in CacheKeys |-> NoEntry]
    /\ rpc = "idle"
    /\ rsymbol = ""
    /\ ridx = 0
    /\ last_err = NoError
    /\ rresult = NoResult
    /\ rlog = <<>>
    /\ rcalls = 0
    /\ rwaits = 0
    /\ nhttp = 0
    /\ served = NoServed

\* the caller lets time pass between two router calls
RouterWaits == {CacheTTL, CacheTTL + 1}
RouterTick ==
    /\ rpc = "idle"
    /\ rwaits < MaxRouterWaits
    /\ \E d \in RouterWaits : now' = now + d
    /\ rwaits' = rwaits + 1
    /\ UNCHANGED <<providers_equity, env_keys, store, rpc, rsymbol, ridx, last_err,
                   rresult, rlog, rcalls, nhttp, served, clientVars, cacheVars, diskVars, stockVars, strategyVars>>

\* get_equity_price is entered: last_err = None, the loop starts
StartEquity ==
    /\ rpc = "idle"
    /\ rcalls < MaxRouterCalls
    /\ nhttp + Len(providers_equity) <= MaxHttp
    /\ \E sym \in Symbols : rsymbol' = sym
    /\ rpc' = "equity"
    /\ ridx' = 1
    /\ last_err' = NoError
    /\ rresult' = NoResult
    /\ rlog' = <<>>
    /\ UNCHANGED <<now, providers_equity, env_keys, store, rcalls, rwaits, nhttp,
                   served, clientVars, cacheVars, diskVars, stockVars, strategyVars>>

\* an upstream answer with status 200 that is not valid JSON or has no price
Malformed(r) ==
    /\ r.kind = "http"
    /\ r.status = 200
    /\ (r.body # "json" \/ r.payload # "price")

\* what one provider call did: c is its ProviderCall, r the upstream response,
\* t the time it began, st the store it found, k its cache key.  malformed:
\* it went to the network and got a malformed answer; wrote: it set its cache
\* entry; changed: the store it left differs from the store it found; kept:
\* the store it left is the store as its _cache.get left it
LogEntry(i, p, c, r, t, st, k) ==
    [idx |-> i, provider |-> p, ok |-> c.ok, value |-> c.value, err |-> c.err,
     http |-> c.http, at |-> t,
     malformed |-> c.http /\ Malformed(r),
     wrote |-> c.store[k] # TTLGetStore(st, k, t)[k],
     changed |-> c.store # st,
     kept |-> c.store = TTLGetStore(st, k, t)]

\* a loop that notes the price and goes on to the next provider
EquityOnSuccessNoReturn(c) ==
    /\ rresult' = Returned(c.value)
    /\ ridx' = ridx + 1
    /\ UNCHANGED <<last_err, rpc>>

\* try: return p.get_equity_price(symbol)
EquityOnSuccess(c) ==
    /\ rresult' = Returned(c.value)
    /\ rpc' = "done"
    /\ UNCHANGED <<ridx, last_err>>

\* a handler that keeps the first error instead of the latest
EquityOnFailureKeepFirst(c) ==
    /\ last_err' = IF last_err = NoError THEN c.err ELSE last_err
    /\ ridx' = ridx + 1
    /\ UNCHANGED <<rresult, rpc>>

\* except Exception as e: last_err = e; continue
EquityOnFailure(c) ==
    /\ last_err' = c.err
    /\ ridx' = ridx + 1
    /\ UNCHANGED <<rresult, rpc>>

\* one iteration of `for p in self.providers_equity`
TryProvider ==
    /\ rpc = "equity"
    /\ ridx <= Len(providers_equity)
    /\ \E r \in Responses, d \in {HttpLatency}, j \in {0, YahooThrottleJitter} :
          LET p == providers_equity[ridx]
              c == ProviderCall(p, rsymbol, store, now, r, d, j)
          IN  /\ store' = c.store
              /\ now' = c.time
              /\ rlog' = Append(rlog, LogEntry(ridx, p, c, r, now, store,
                                               CacheKey(p, rsymbol)))
              /\ nhttp' = IF c.http THEN nhttp + 1 ELSE nhttp
              /\ IF c.ok THEN EquityOnSuccess(c) ELSE EquityOnFailure(c)
    /\ UNCHANGED <<providers_equity, env_keys, rsymbol, rcalls, rwaits, served,
                   clientVars, cacheVars, diskVars, stockVars, strategyVars>>

\* the loop ran out of providers: raise RuntimeError(... last_err)
RaiseAllFailed ==
    /\ rpc = "equity"
    /\ ridx > Len(providers_equity)
    /\ rresult' = AllFailed(last_err)
    /\ rpc' = "done"
    /\ UNCHANGED <<now, providers_equity, env_keys, store, rsymbol, ridx, last_err, rlog,
                   rcalls, rwaits, nhttp, served, clientVars, cacheVars, diskVars, stockVars, strategyVars>>

\* the result of self.crypto.get_crypto_price(pair) as get_crypto_price hands it on
CryptoOutcome(c) == IF c.ok THEN Returned(c.value) ELSE Raised(c.err, NoError)

\* get_crypto_price(base, quote): return self.crypto.get_crypto_price(pair)
GetCryptoPrice ==
    /\ rpc = "idle"
    /\ rcalls < MaxRouterCalls
    /\ nhttp + 1 <= MaxHttp
    /\ \E pair \in Pairs, r \in Responses, d \in {HttpLatency} :
          LET c == ProviderCall("CoinbaseSpotProvider", pair, store, now, r, d, 0)
          IN  /\ rsymbol' = pair
              /\ store' = c.store
              /\ now' = c.time
              /\ rlog' = <<LogEntry(1, "CoinbaseSpotProvider", c, r, now, store,
                                  CacheKey("CoinbaseSpotProvider", pair))>>
              /\ nhttp' = IF c.http THEN nhttp + 1 ELSE nhttp
              /\ rresult' = CryptoOutcome(c)
    /\ rpc' = "done"
    /\ ridx' = 0
    /\ last_err' = NoError
    /\ UNCHANGED <<providers_equity, env_keys, rcalls, rwaits, served, clientVars,
                   cacheVars, diskVars, stockVars, strategyVars>>

\* the caller takes the result (or catches the exception)
RouterReturn ==
    /\ rpc = "done"
    /\ rpc' = "idle"
    /\ rcalls' = rcalls + 1
    /\ rresult' = NoResult
    /\ rlog' = <<>>
    /\ rsymbol' = ""
    /\ ridx' = 0
    /\ last_err' = NoError
    /\ served' = IF rsymbol \in Symbols /\ rresult.kind = "value"
                 THEN [symbol |-> rsymbol, price |-> rresult.value, at |-> now]
                 ELSE served
    /\ UNCHANGED <<now, providers_equity, env_keys, store, rwaits, nhttp, clientVars, cacheVars, diskVars, stockVars, strategyVars>>

ClientInit ==
    /\ circuit_breaker_failures = 0
    /\ circuit_breaker_reset_time = None
    /\ last_request_time = 0
    /\ cpc = "idle"
    /\ attempt = 0
    /\ max_retries = 0
    /\ cresult = "none"
    /\ clog = <<>>
    /\ ccalls = 0
    /\ cwaits = 0
    /\ nreq = 0
    /\ last_failure_at = None
    /\ last_issued = None

\* ------------------------------------------------------- client actions
\* the caller lets time pass between two _make_request calls
ClientWaits == {1, circuit_breaker_timeout}
ClientTick ==
    /\ cpc = "idle"
    /\ cwaits < MaxClientWaits
    /\ \E d \in ClientWaits : now' = now + d
    /\ cwaits' = cwaits + 1
    /\ UNCHANGED <<circuit_breaker_failures, circuit_breaker_reset_time,
                   last_request_time, cpc, attempt, max_retries, cresult, clog,
                   ccalls, nreq, last_failure_at, last_issued,
                   routerVars, cacheVars, diskVars, stockVars, strategyVars>>

\* _make_request is entered with max_retries = m
EnterCall(m) ==
    /\ cpc = "idle"
    /\ max_retries' = m
    /\ cpc' = "loop"
    /\ attempt' = 0
    /\ cresult' = "pending"
    /\ clog' = <<>>
    /\ UNCHANGED <<now, circuit_breaker_failures, circuit_breaker_reset_time,
                   last_request_time, ccalls, cwaits, nreq, last_failure_at,
                   last_issued, routerVars, cacheVars, diskVars, stockVars, strategyVars>>

\* a call is made while the calls and the requests it may send fit the bounds
Enter(m) ==
    /\ ccalls < MaxClientCalls
    /\ nreq + m <= MaxRequests
    /\ EnterCall(m)

\* self._make_request(url), as get_stock_data calls it
StartRequest == Enter(DefaultMaxRetries)

\* _make_request(url, max_retries=m) with fewer retries
StartRequestWith == \E m \in 1..(DefaultMaxRetries - 1) : Enter(m)

\* an iteration that finds the breaker open: return None, nothing is sent
AttemptBlocked ==
    /\ cpc = "loop"
    /\ attempt < max_retries
    /\ BreakerBlocks(attempt, circuit_breaker_reset_time, now)
    /\ cresult' = "None"
    /\ cpc' = "done"
    /\ UNCHANGED <<now, circuit_breaker_failures, circuit_breaker_reset_time,
                   last_request_time, attempt, max_retries, clog, ccalls, cwaits,
                   nreq, last_failure_at, last_issued, routerVars, cacheVars, diskVars, stockVars, strategyVars>>

\* an iteration that sends the request: rate-limit sleep, session.get, then
\* the branch for the response, which is one of R
Attempt(R) ==
    /\ cpc = "loop"
    /\ attempt < max_retries
    /\ ~BreakerBlocks(attempt, circuit_breaker_reset_time, now)
    /\ \E r \in R, lat \in {ClientLatency} :
          LET issued == now + RateLimitSleep(last_request_time, now)
              got == issued + lat
              d == Disposition(r, attempt, max_retries)
              b == Recorded(d.rec, circuit_breaker_failures,
                            circuit_breaker_reset_time, got)
          IN  /\ last_request_time' = IF d.stamp THEN got ELSE last_request_time
              /\ circuit_breaker_failures' = b.failures
              /\ circuit_breaker_reset_time' = b.reset_time
              /\ now' = got + d.sleep
              /\ last_failure_at' = IF b.failures > circuit_breaker_failures
                                     THEN got ELSE last_failure_at
              /\ last_issued' = issued
              /\ clog' = Append(clog,
                    [attempt |-> attempt, issued |-> issued,
                     open |-> IsCircuitBreakerOpen(circuit_breaker_reset_time, issued),
                     resp |-> r, exit |-> d.exit, got |-> got,
                     prev |-> last_issued,
                     f_before |-> circuit_breaker_failures,
                     f_after |-> b.failures])
              /\ IF d.exit = "continue"
                 THEN /\ attempt' = attempt + 1
                      /\ UNCHANGED <<cpc, cresult>>
                 ELSE /\ cpc' = "done"
                      /\ cresult' = CASE d.exit = "return" -> "response"
                                      [] d.exit = "none" -> "None"
                                      [] d.exit = "raise" -> "ValueError"
                      /\ UNCHANGED attempt
    /\ nreq' = nreq + 1
    /\ UNCHANGED <<max_retries, ccalls, cwaits, routerVars, cacheVars, diskVars, stockVars, strategyVars>>

\* the request is answered with any of ClientResponses
AttemptRequest == Attempt(ClientResponses)

\* a loop that starts over when its range is used up
LoopRestarts ==
    /\ cpc = "loop"
    /\ attempt >= max_retries
    /\ attempt' = 0
    /\ UNCHANGED <<now, circuit_breaker_failures, circuit_breaker_reset_time,
                   last_request_time, cpc, cresult, max_retries, clog, ccalls,
                   cwaits, nreq, last_failure_at, last_issued, routerVars,
                   cacheVars, diskVars, stockVars, strategyVars>>

\* range(max_retries) is used up: return None
LoopExhausted ==
    /\ cpc = "loop"
    /\ attempt >= max_retries
    /\ cresult' = "None"
    /\ cpc' = "done"
    /\ UNCHANGED <<now, circuit_breaker_failures, circuit_breaker_reset_time,
                   last_request_time, attempt, max_retries, clog, ccalls, cwaits,
                   nreq, last_failure_at, last_issued, routerVars, cacheVars, diskVars, stockVars, strategyVars>>

\* the caller takes the result
ClientReturn ==
    /\ cpc = "done"
    /\ cpc' = "idle"
    /\ ccalls' = ccalls + 1
    /\ cresult' = "none"
    /\ clog' = <<>>
    /\ attempt' = 0
    /\ max_retries' = 0
    /\ UNCHANGED <<now, circuit_breaker_failures, circuit_breaker_reset_time,
                   last_request_time, cwaits, nreq, last_failure_at,
                   last_issued, routerVars, cacheVars, diskVars, stockVars, strategyVars>>

ClientNext ==
    \/ ClientTick
    \/ StartRequest
    \/ StartRequestWith
    \/ AttemptBlocked
    \/ AttemptRequest
    \/ LoopExhausted
    \/ ClientReturn

\* ------------------------------------------------------ TTLCache actions
\* cache_got before any get
NoGet == [key |-> <<>>, val |-> -1, at |-> -1, set |-> NoEntry]

\* cache_last before any call
NoCacheOp == [op |-> "none"]
\* a call on _cache at time t: its key, the value passed or returned, the
\* store it found and the store it left
CacheOp(op, k, v, t, before, after) ==
    [op |-> op, key |-> k, val |-> v, at |-> t, before |-> before,
     after |-> after]

CacheInit ==
    /\ cache_sets = [k \in CacheKeys |-> NoEntry]
    /\ cache_got = NoGet
    /\ cache_last = NoCacheOp
    /\ cache_ops = 0
    /\ cache_waits = 0

\* time passes between two calls on _cache: the ttl, a second less, a second
\* more
CacheWaits == {CacheTTL - 1, CacheTTL, CacheTTL + 1}
\* the keys the callers of this behaviour use: one equity quote, one spot price
KeysUsed ==
    {CacheKey("FMPProvider", s) : s \in Symbols}
    \cup {CacheKey("CoinbaseSpotProvider", s) : s \in Pairs}
CacheTick ==
    /\ cache_waits < MaxCacheWaits
    /\ \E d \in CacheWaits : now' = now + d
    /\ cache_waits' = cache_waits + 1
    /\ UNCHANGED <<cache_sets, cache_got, cache_last, cache_ops, routerVars,
                   clientVars, diskVars, stockVars, strategyVars>>

\* _cache.set(k, v)
CacheSet ==
    /\ cache_ops < MaxCacheOps
    /\ \E k \in KeysUsed, v \in Prices :
          /\ store' = TTLSet(store, k, v, now)
          /\ cache_sets' = [cache_sets EXCEPT ![k] = [val |-> v, ts |-> now]]
          /\ cache_last' = CacheOp("set", k, v, now, store,
                                   TTLSet(store, k, v, now))
    /\ cache_ops' = cache_ops + 1
    /\ UNCHANGED <<now, cache_got, cache_waits, providers_equity, env_keys, rpc, rsymbol,
                   ridx, last_err, rresult, rlog, rcalls, rwaits, nhttp,
                   served, clientVars, diskVars, stockVars, strategyVars>>

\* _cache.get(k)
CacheGet ==
    /\ cache_ops < MaxCacheOps
    /\ \E k \in KeysUsed :
          /\ cache_got' = [key |-> k, val |-> TTLGetValue(store, k, now),
                           at |-> now, set |-> cache_sets[k]]
          /\ store' = TTLGetStore(store, k, now)
          /\ cache_last' = CacheOp("get", k, TTLGetValue(store, k, now), now,
                                   store, TTLGetStore(store, k, now))
    /\ cache_ops' = cache_ops + 1
    /\ UNCHANGED <<now, cache_sets, cache_waits, providers_equity, env_keys, rpc, rsymbol,
                   ridx, last_err, rresult, rlog, rcalls, rwaits, nhttp,
                   served, clientVars, diskVars, stockVars, strategyVars>>

CacheNext ==
    \/ CacheTick
    \/ CacheSet
    \/ CacheGet

\* ------------------------------------------------ persistent caches
\* The four modules below keep pickle files in the directory "cache".
\* RobustYahooClient.cache_duration (seconds)
cache_duration == 60
\* analyze_stock.CACHE_DURATION (seconds)
CACHE_DURATION == 300
\* mnav_alert: max_age_hours * 3600 with CACHE_DURATION_HOURS = 0.5
AlertMaxAge == 3600 \div 2
\* mnav_backtest: max_age_hours * 3600 with CACHE_DURATION_HOURS = 24
BacktestMaxAge == 24 * 3600
\* the default of get_shares_outstanding
DefaultShares == 351928000

\* what yfinance and the routers hand back as a price; 0 is "no price"
DiskPrices == {0, 1}
\* sharesOutstanding values
ShareCounts == {DefaultShares, DefaultShares + 1}
\* historical series: sequences of <<timestamp, price>> rows
SeriesSet ==
    {<<>>, <<<<1, 2>>>>, <<<<1, 2>>, <<2, 1>>>>, <<<<2, 1>>, <<1, 1>>>>}

\* pickle.dump of a number
DumpNumber(v) == [kind |-> "number", val |-> v]
\* pickle.load of it
LoadNumber(b) == b.val
\* pickle.dump of {'price': v}
DumpPriceDict(v) == [kind |-> "dict", price |-> v]
\* cached_data['price'] of the loaded dict
LoadPriceDict(b) == b.price
\* pickle.dump of {'data': d, 'timestamp': t}
DumpStamped(d, t) == [kind |-> "dict", data |-> d, timestamp |-> t]
\* a frame dump that keeps the rows sorted by timestamp
RECURSIVE SortedRows(_)
SortedRows(s) ==
    IF Len(s) <= 1 THEN s
    ELSE LET m == CHOOSE i \in 1..Len(s) :
                      \A j \in 1..Len(s) : s[i][1] <= s[j][1]
             others == [j \in 1..(Len(s) - 1) |-> IF j < m THEN s[j] ELSE s[j + 1]]
         IN  <<s[m]>> \o SortedRows(others)
DumpFrameSorted(s) ==
    [kind |-> "frame",
     index |-> [i \in 1..Len(s) |-> SortedRows(s)[i][1]],
     values |-> [i \in 1..Len(s) |-> SortedRows(s)[i][2]]]
\* pickle.dump of a DataFrame / Series: the index and the block of values
DumpFrame(s) ==
    [kind |-> "frame",
     index |-> [i \in 1..Len(s) |-> s[i][1]],
     values |-> [i \in 1..Len(s) |-> s[i][2]]]
\* pickle.load of it: the rows again
LoadFrame(b) == [i \in 1..Len(b.index) |-> <<b.index[i], b.values[i]>>]

\* os.path.exists(cache_path)
Exists(fs, name) == name \in DOMAIN fs
\* with open(cache_path, 'wb') as f: pickle.dump(..., f)
WriteFile(fs, name, data, t) == (name :> [data |-> data, mtime |-> t]) @@ fs
\* disk_saved after a save of obj under name by caller who
NoteSave(sv, name, obj, t, who) ==
    (name :> [obj |-> obj, at |-> t,
              by |-> (IF name \in DOMAIN sv THEN sv[name].by ELSE {}) \cup {who}])
    @@ sv
\* time.time() - os.path.getmtime(cache_path); -1 when there is no file
FileAge(fs, name, t) == IF name \in DOMAIN fs THEN t - fs[name].mtime ELSE -1

\* What a reader returned.  hit: it returned a cached object; value: the
\* object returned (-1 for None); age: the age of the file it looked at (-1
\* when there is none); limit: the maximum age of its cache.
Got(reader, name, hit, value, age, limit) ==
    [reader |-> reader, file |-> name, hit |-> hit, value |-> value,
     age |-> age, limit |-> limit]
\* disk_got: a reader's result, with the object last saved under that name
Seen(g, sv) ==
    [reader |-> g.reader, file |-> g.file, hit |-> g.hit, value |-> g.value,
     age |-> g.age, limit |-> g.limit, exists |-> g.file \in DOMAIN sv,
     saved |-> IF g.file \in DOMAIN sv THEN sv[g.file].obj ELSE -1,
     by |-> IF g.file \in DOMAIN sv THEN sv[g.file].by ELSE {}]
NoGot ==
    [reader |-> "none", file |-> "", hit |-> FALSE, value |-> -1, age |-> -1,
     limit |-> -1, exists |-> FALSE, saved |-> -1, by |-> {}]

DiskInit ==
    /\ files = [n \in {} |-> 0]
    /\ disk_saved = [n \in {} |-> 0]
    /\ disk_got = NoGot
    /\ disk_ops = 0
    /\ disk_waits = 0

\* ---- robust_yahoo_client.py
\* _get_cache_path
ClientCachePath(key) == "yahoo_" \o key \o ".pkl"
\* _load_from_cache: the age is taken from the pickled timestamp
ClientLoad(fs, key, t) ==
    LET name == ClientCachePath(key)
        age == IF Exists(fs, name) THEN t - fs[name].data.timestamp ELSE -1
    IN  IF Exists(fs, name) /\ age < cache_duration
        THEN Got("RobustYahooClient", name, TRUE, fs[name].data.data, age,
                 cache_duration)
        ELSE Got("RobustYahooClient", name, FALSE, -1, age, cache_duration)

\* ---- analyze_stock.py
\* get_cache_path
AnalyzeCachePath(key) == key \o ".pkl"
\* load_from_cache: None (hit FALSE) unless the file is younger than
\* CACHE_DURATION
AnalyzeLoad(fs, key, t) ==
    LET name == AnalyzeCachePath(key)
    IN  IF Exists(fs, name) /\ FileAge(fs, name, t) < CACHE_DURATION
        THEN Got("analyze_stock", name, TRUE, fs[name].data,
                 FileAge(fs, name, t), CACHE_DURATION)
        ELSE Got("analyze_stock", name, FALSE, -1, FileAge(fs, name, t),
                 CACHE_DURATION)

\* ---- mnav_backtest.py
\* is_cache_valid(cache_path)
BacktestIsCacheValid(fs, name, t) ==
    Exists(fs, name) /\ FileAge(fs, name, t) < BacktestMaxAge
\* load_from_cache(filename)
BacktestLoad(fs, name, t) ==
    IF BacktestIsCacheValid(fs, name, t)
    THEN Got("mnav_backtest", name, TRUE, LoadFrame(fs[name].data),
             FileAge(fs, name, t), BacktestMaxAge)
    ELSE Got("mnav_backtest", name, FALSE, -1, FileAge(fs, name, t),
             BacktestMaxAge)

\* ---- mnav_alert.py
\* load_from_cache(filename): whatever the file holds, however old
AlertLoad(fs, name) == IF Exists(fs, name) THEN fs[name].data ELSE [kind |-> "none"]
\* is_cache_valid(cache_path, CACHE_DURATION_HOURS)
AlertIsCacheValid(fs, name, t) ==
    Exists(fs, name) /\ FileAge(fs, name, t) < AlertMaxAge

\* ---- file names of mnav_backtest.py
\* datetime values of the date ranges, as year, month, day
Dates == {[y |-> 2024, m |-> 1, d |-> 5], [y |-> 2024, m |-> 12, d |-> 31]}
\* two digits, zero padded
Pad2(n) == IF n < 10 THEN "0" \o ToString(n) ELSE ToString(n)
\* date.strftime('%Y%m%d')
StrfDate(d) == ToString(d.y) \o Pad2(d.m) \o Pad2(d.d)
\* the tickers given on the command line (sys.argv[1].upper())
Tickers == {"MARA", "BTC"}
\* STOCK_SYMBOL.lower()
Lower(sym) ==
    CASE sym = "MARA" -> "mara"
      [] sym = "BTC" -> "btc"
\* get_btc_historical_data: cache_key
BtcKey(s, e) == "btc_" \o StrfDate(s) \o "_" \o StrfDate(e) \o ".pkl"
\* get_historical_stock_data: cache_key
StockKey(sym, s, e) ==
    Lower(sym) \o "_" \o StrfDate(s) \o "_" \o StrfDate(e) \o ".pkl"
\* run_backtest_for_period: mnav_cache_key
MnavKey(sym, s, e) ==
    "mnav_" \o Lower(sym) \o "_" \o StrfDate(s) \o "_" \o StrfDate(e) \o ".pkl"

\* -------------------------------------------- persistent cache actions
\* time passes between two runs: a second, or a day
DiskWaits == {1, BacktestMaxAge}
DiskTick ==
    /\ disk_waits < MaxDiskWaits
    /\ \E d \in DiskWaits : now' = now + d
    /\ disk_waits' = disk_waits + 1
    /\ UNCHANGED <<files, disk_saved, disk_got, disk_ops, routerVars,
                   clientVars, cacheVars, stockVars, strategyVars>>

\* RobustYahooClient._save_to_cache(data, key)
ClientSaveToCache ==
    /\ disk_ops < MaxDiskOps
    /\ \E sym \in Symbols, v \in DiskPrices :
          LET name == ClientCachePath(sym)
          IN  /\ files' = WriteFile(files, name, DumpStamped(v, now), now)
              /\ disk_saved' = NoteSave(disk_saved, name, v, now,
                                        "RobustYahooClient")
    /\ disk_ops' = disk_ops + 1
    /\ UNCHANGED <<now, disk_got, disk_waits, routerVars, clientVars, cacheVars, stockVars, strategyVars>>

\* RobustYahooClient._load_from_cache(key)
ClientLoadFromCache ==
    /\ disk_ops < MaxDiskOps
    /\ \E sym \in Symbols :
          disk_got' = Seen(ClientLoad(files, sym, now), disk_saved)
    /\ disk_ops' = disk_ops + 1
    /\ UNCHANGED <<now, files, disk_saved, disk_waits, routerVars, clientVars,
                   cacheVars, stockVars, strategyVars>>

\* analyze_stock.save_to_cache({'price': price}, f"stock_{symbol}")
AnalyzeSaveToCache ==
    /\ disk_ops < MaxDiskOps
    /\ \E sym \in Symbols, v \in DiskPrices :
          LET name == AnalyzeCachePath("stock_" \o sym)
          IN  /\ files' = WriteFile(files, name, DumpPriceDict(v), now)
              /\ disk_saved' = NoteSave(disk_saved, name, v, now, "analyze_stock")
    /\ disk_ops' = disk_ops + 1
    /\ UNCHANGED <<now, disk_got, disk_waits, routerVars, clientVars, cacheVars, stockVars, strategyVars>>

\* analyze_stock.load_from_cache(f"stock_{symbol}")
AnalyzeLoadFromCache ==
    /\ disk_ops < MaxDiskOps
    /\ \E sym \in Symbols :
          disk_got' = Seen(AnalyzeLoad(files, "stock_" \o sym, now), disk_saved)
    /\ disk_ops' = disk_ops + 1
    /\ UNCHANGED <<now, files, disk_saved, disk_waits, routerVars, clientVars,
                   cacheVars, stockVars, strategyVars>>

\* the file names mnav_backtest uses for one ticker and one date range
BacktestFiles ==
    LET s == [y |-> 2024, m |-> 1, d |-> 5]
        e == [y |-> 2024, m |-> 12, d |-> 31]
    IN  {BtcKey(s, e), StockKey("MARA", s, e)}

\* mnav_backtest.save_to_cache(data, filename)
BacktestSaveToCache ==
    /\ disk_ops < MaxDiskOps
    /\ \E name \in BacktestFiles, series \in SeriesSet :
          /\ files' = WriteFile(files, name, DumpFrame(series), now)
          /\ disk_saved' = NoteSave(disk_saved, name, series, now, "mnav_backtest")
    /\ disk_ops' = disk_ops + 1
    /\ UNCHANGED <<now, disk_got, disk_waits, routerVars, clientVars, cacheVars, stockVars, strategyVars>>

\* mnav_backtest.load_from_cache(filename)
BacktestLoadFromCache ==
    /\ disk_ops < MaxDiskOps
    /\ \E name \in BacktestFiles :
          disk_got' = Seen(BacktestLoad(files, name, now), disk_saved)
    /\ disk_ops' = disk_ops + 1
    /\ UNCHANGED <<now, files, disk_saved, disk_waits, routerVars, clientVars,
                   cacheVars, stockVars, strategyVars>>

\* mnav_alert.get_stock_price: seconds slept before attempt k of the retry
\* loop is reached ((2 ** attempt) * 5 after each failed attempt but the last)
AlertSlept(k) == IF k = 0 THEN 0 ELSE IF k = 1 THEN 5 ELSE 15

\* how many attempts of get_stock_price raise before yfinance answers: none,
\* or all three
AlertFailedAttempts == {0, 3}

\* mnav_alert.get_stock_price(symbol); k attempts raise before yfinance
\* answers with currentPrice v (k = 3: none answers)
AlertGetStockPrice ==
    /\ disk_ops < MaxDiskOps
    /\ \E sym \in Symbols, k \in AlertFailedAttempts, v \in DiskPrices :
          LET name == "stock_price_" \o sym \o ".pkl"
              cached == AlertLoad(files, name)
              t == now + AlertSlept(k)
          IN  IF cached.kind # "none" /\ AlertIsCacheValid(files, name, now)
              THEN /\ disk_got' = Seen(Got("mnav_alert.get_stock_price", name,
                                           TRUE, LoadNumber(cached),
                                           FileAge(files, name, now),
                                           AlertMaxAge), disk_saved)
                   /\ UNCHANGED <<now, files, disk_saved>>
              ELSE IF k < 3 /\ v > 0
              THEN /\ files' = WriteFile(files, name, DumpNumber(v), t)
                   /\ disk_saved' = NoteSave(disk_saved, name, v, t, "mnav_alert")
                   /\ now' = t
                   /\ disk_got' = Seen(Got("mnav_alert.get_stock_price", name,
                                           FALSE, v, FileAge(files, name, now),
                                           AlertMaxAge), disk_saved)
              ELSE /\ now' = t
                   /\ disk_got' = Seen(Got("mnav_alert.get_stock_price", name,
                                           FALSE, 0, FileAge(files, name, now),
                                           AlertMaxAge), disk_saved)
                   /\ UNCHANGED <<files, disk_saved>>
    /\ disk_ops' = disk_ops + 1
    /\ UNCHANGED <<disk_waits, routerVars, clientVars, cacheVars, stockVars, strategyVars>>

\* mnav_alert.get_shares_outstanding(symbol); ci: os.environ CI is 'true';
\* ok: yfinance answers, with sharesOutstanding n
AlertGetSharesOutstanding ==
    /\ disk_ops < MaxDiskOps
    /\ \E sym \in Symbols, ci \in BOOLEAN, ok \in BOOLEAN, n \in ShareCounts :
          LET name == "shares_outstanding_" \o sym \o ".pkl"
              cached == AlertLoad(files, name)
          IN  IF cached.kind # "none"
              THEN /\ disk_got' = Seen(Got("mnav_alert.get_shares_outstanding",
                                           name, TRUE, LoadNumber(cached),
                                           FileAge(files, name, now),
                                           AlertMaxAge), disk_saved)
                   /\ UNCHANGED <<files, disk_saved>>
              ELSE IF ~ci /\ ok
              THEN /\ files' = WriteFile(files, name, DumpNumber(n), now)
                   /\ disk_saved' = NoteSave(disk_saved, name, n, now, "mnav_alert")
                   /\ disk_got' = Seen(Got("mnav_alert.get_shares_outstanding",
                                           name, FALSE, n, -1, AlertMaxAge),
                                       disk_saved)
              ELSE /\ disk_got' = Seen(Got("mnav_alert.get_shares_outstanding",
                                           name, FALSE, DefaultShares, -1,
                                           AlertMaxAge), disk_saved)
                   /\ UNCHANGED <<files, disk_saved>>
    /\ disk_ops' = disk_ops + 1
    /\ UNCHANGED <<now, disk_waits, routerVars, clientVars, cacheVars, stockVars, strategyVars>>

\* ---- mnav_backtest.py: one backtest period
\* a logical request: what is asked for, for which ticker and date range
Req(cat, sym, s, e) == [cat |-> cat, symbol |-> sym, start |-> s, end |-> e]
\* the frame a source answers with
SourceFrame == <<<<1, 2>>>>
\* create_mock_stock_data: a random walk from base_price 100.0
MockStockFrame == <<<<1, 100>>>>
\* create_mock_btc_data: a random walk from base_price 65000.0
MockBtcFrame == <<<<1, 65000>>>>
\* the BTC fallback: the current price on every day of the range
FlatFrame == <<<<1, 3>>, <<2, 3>>>>
\* no frame: the function returned None
NoFrame == <<>>
\* The sources answer with SourceFrame only, so the rows of a frame tell
\* whether it was fabricated.
Synthetic(frame) == frame \in {MockStockFrame, MockBtcFrame, FlatFrame}

\* where the frame comes from when the cache file does not answer: the
\* local store (asked before the cache), the first source (the frame is
\* cached), an alternative source (the frame is returned, not cached), the
\* current BTC price (get_btc_historical_data only), or nowhere
FetchOutcomes == {"local", "cached", "plain", "flat", "none"}
\* get_historical_stock_data has no current-price fallback
StockOutcomes == FetchOutcomes \ {"flat"}
\* the date ranges asked for
DateRanges == {<<s, e>> \in Dates \X Dates : s.m <= e.m}

\* create_mock_stock_data / create_mock_btc_data for the request
MockFrame(req) == IF req.cat = "btc" THEN MockBtcFrame ELSE MockStockFrame

\* get_historical_stock_data / get_btc_historical_data for request req with
\* cache file name: local data, else the cache file, else the sources, else
\* (BTC) the flat series, else None with force_real_data and mock data
\* without.  got is the load_from_cache result when the cache was asked,
\* frame the frame returned.
HistoricalData(fs, sv, name, req, t, o, force) ==
    LET g == Seen([BacktestLoad(fs, name, t) EXCEPT !.reader = req], sv)
    IN  IF o = "local"
        THEN [files |-> fs, saved |-> sv, ok |-> TRUE, asked |-> FALSE, got |-> g,
              frame |-> SourceFrame]
        ELSE IF g.hit
        THEN [files |-> fs, saved |-> sv, ok |-> TRUE, asked |-> TRUE, got |-> g,
              frame |-> g.value]
        ELSE IF o = "cached"
        THEN [files |-> WriteFile(fs, name, DumpFrame(SourceFrame), t),
              saved |-> NoteSave(sv, name, SourceFrame, t, req),
              ok |-> TRUE, asked |-> TRUE, got |-> g, frame |-> SourceFrame]
        ELSE IF o = "plain"
        THEN [files |-> fs, saved |-> sv, ok |-> TRUE, asked |-> TRUE, got |-> g,
              frame |-> SourceFrame]
        ELSE IF o = "flat"
        THEN [files |-> WriteFile(fs, name, DumpFrame(FlatFrame), t),
              saved |-> NoteSave(sv, name, FlatFrame, t, req),
              ok |-> TRUE, asked |-> TRUE, got |-> g, frame |-> FlatFrame]
        ELSE IF force
        THEN [files |-> fs, saved |-> sv, ok |-> FALSE, asked |-> TRUE, got |-> g,
              frame |-> NoFrame]
        ELSE [files |-> WriteFile(fs, name, DumpFrame(MockFrame(req)), t),
              saved |-> NoteSave(sv, name, MockFrame(req), t, req),
              ok |-> TRUE, asked |-> TRUE, got |-> g, frame |-> MockFrame(req)]

\* what a run was handed: force_real_data and the two frames (NoFrame for
\* the BTC frame when the stock frame was None)
RunFrames(force, stock, btc) == [force |-> force, stock |-> stock, btc |-> btc]

\* run_backtest_for_period with STOCK_SYMBOL = sym, the range s..e and the
\* flag force_real_data as main set it: the stock frame, then the BTC frame,
\* then the MNav series is saved
RunBacktestForPeriod ==
    /\ disk_ops < MaxRuns
    /\ \E sym \in Tickers, r \in DateRanges, force \in BOOLEAN,
          os \in StockOutcomes, ob \in FetchOutcomes :
          LET s == r[1]
              e == r[2]
              st == HistoricalData(files, disk_saved, StockKey(sym, s, e),
                                   Req("stock", sym, s, e), now, os, force)
              bt == HistoricalData(st.files, st.saved, BtcKey(s, e),
                                   Req("btc", "", s, e), now, ob, force)
              mnav == MnavKey(sym, s, e)
          IN  IF ~st.ok
                 THEN /\ files' = st.files
                      /\ disk_saved' = st.saved
                      /\ disk_got' = RunFrames(force, st.frame, NoFrame)
                                     @@ (IF st.asked THEN st.got ELSE disk_got)
                 ELSE IF ~bt.ok
                 THEN /\ files' = bt.files
                      /\ disk_saved' = bt.saved
                      /\ disk_got' = RunFrames(force, st.frame, bt.frame)
                                     @@ (IF bt.asked THEN bt.got
                                         ELSE IF st.asked THEN st.got ELSE disk_got)
                 ELSE /\ files' = WriteFile(bt.files, mnav,
                                            DumpFrame(SourceFrame), now)
                      /\ disk_saved' = NoteSave(bt.saved, mnav, SourceFrame, now,
                                                Req("mnav", sym, s, e))
                      /\ disk_got' = RunFrames(force, st.frame, bt.frame)
                                     @@ (IF bt.asked THEN bt.got
                                         ELSE IF st.asked THEN st.got ELSE disk_got)
    /\ disk_ops' = disk_ops + 1
    /\ UNCHANGED <<now, disk_waits, routerVars, clientVars, cacheVars, stockVars, strategyVars>>

BacktestNext ==
    \/ DiskTick
    \/ RunBacktestForPeriod

\* ---- analyze_stock.py: one analysis
\* the symbols analyze_stock is run for: one with an entry in the table of
\* estimated prices, one without
AnalyzeSymbols == {"MARA", "NVDA"}
\* the keys of estimated_prices that are in AnalyzeSymbols
EstimatedSymbols == {"MARA"}

\* what analyze_stock worked with: the stock price it used (-1: none), where
\* it came from, and whether force_fresh was set.  btc: get_btc_price gave a
\* price; tried: where get_stock_price_robust got its price ("none": the
\* router and yfinance both failed); cached: load_from_cache had an entry when
\* get_estimated_price asked; estimate: the symbol is in estimated_prices
Analyzed(sym, fresh, price, source, g, btc, tried, cached) ==
    [reader |-> "analyze_stock", file |-> g.file, hit |-> source = "cache",
     value |-> price, age |-> g.age, limit |-> g.limit, fresh |-> fresh,
     source |-> source, symbol |-> sym, btc |-> btc, tried |-> tried,
     cached |-> cached, estimate |-> sym \in EstimatedSymbols]

\* `if not stock_price` / `if cached_data`: None and 0 are falsy
Falsy(v) == v <= 0

\* get_estimated_price(symbol): the cached price if load_from_cache has one,
\* else the symbol's entry in the table of estimated prices, else None
EstimatedPrice(fs, sym, t) ==
    LET g == AnalyzeLoad(fs, "stock_" \o sym, t)
    IN  IF g.hit THEN [price |-> LoadPriceDict(g.value), source |-> "cache"]
        ELSE IF sym \in EstimatedSymbols
        THEN [price |-> MaxPrice + 1, source |-> "estimate"]
        ELSE [price |-> -1, source |-> "none"]

\* seconds get_stock_price_fallback sleeps when none of its three attempts
\* yields a price: (2 ** attempt) * 2 before attempts 1 and 2
FallbackSlept == 4 + 8

\* get_stock_price_fallback(symbol, force_fresh); yo is what yfinance gives
\* on the first attempt (-1: every attempt raises or gives no price)
StockPriceFallback(fs, sym, fresh, t, yo) ==
    LET g == AnalyzeLoad(fs, "stock_" \o sym, t)
    IN  IF ~fresh /\ g.hit
        THEN [price |-> LoadPriceDict(g.value), source |-> "cache", save |-> FALSE,
              time |-> t]
        ELSE IF yo > 0
        THEN [price |-> yo, source |-> "yfinance", save |-> TRUE, time |-> t]
        ELSE [price |-> -1, source |-> "none", save |-> FALSE,
              time |-> t + FallbackSlept]

\* get_stock_price_robust(symbol, force_fresh); ra: ROUTER_AVAILABLE; ro: what
\* router.get_equity_price returns (-1: it raises)
StockPriceRobust(fs, sym, fresh, t, ra, ro, yo) ==
    LET g == AnalyzeLoad(fs, "stock_" \o sym, t)
    IN  IF ~ra THEN StockPriceFallback(fs, sym, fresh, t, yo)
        ELSE IF ~fresh /\ g.hit
        THEN [price |-> LoadPriceDict(g.value), source |-> "cache", save |-> FALSE,
              time |-> t]
        ELSE IF ro >= 0
        THEN [price |-> ro, source |-> "router", save |-> TRUE, time |-> t]
        ELSE StockPriceFallback(fs, sym, fresh, t, yo)

\* how get_btc_price gets its price: from the router, from its own cache
\* file or a direct API (which it caches), or not at all
BtcOutcomes == {"router", "api", "none"}

\* get_btc_price(): whether it has a price, and the files it leaves
BtcPrice(fs, sv, t, b) ==
    LET g == AnalyzeLoad(fs, "btc_price", t)
        name == AnalyzeCachePath("btc_price")
    IN  IF b = "router" \/ g.hit
        THEN [ok |-> TRUE, files |-> fs, saved |-> sv]
        ELSE IF b = "api"
        THEN [ok |-> TRUE, files |-> WriteFile(fs, name, DumpNumber(1), t),
              saved |-> NoteSave(sv, name, 1, t, "analyze_stock")]
        ELSE [ok |-> FALSE, files |-> fs, saved |-> sv]

\* analyze_stock(symbol, btc_owned, shares_outstanding, force_fresh)
AnalyzeStock ==
    /\ disk_ops < MaxRuns
    /\ \E sym \in AnalyzeSymbols, fresh \in BOOLEAN, b \in BtcOutcomes,
          ra \in BOOLEAN, ro \in {-1} \cup DiskPrices, yo \in {-1} \cup DiskPrices :
          LET name == AnalyzeCachePath("stock_" \o sym)
              btc == BtcPrice(files, disk_saved, now, b)
              p == StockPriceRobust(btc.files, sym, fresh, now, ra, ro, yo)
              fs1 == IF p.save
                     THEN WriteFile(btc.files, name, DumpPriceDict(p.price),
                                    p.time)
                     ELSE btc.files
              sv1 == IF p.save
                     THEN NoteSave(btc.saved, name, p.price, p.time,
                                   "analyze_stock")
                     ELSE btc.saved
              est == EstimatedPrice(fs1, sym, p.time)
              used == IF Falsy(p.price) THEN est ELSE p
              g == AnalyzeLoad(files, "stock_" \o sym, p.time)
              c == AnalyzeLoad(fs1, "stock_" \o sym, p.time).hit
          IN  IF ~btc.ok
              THEN /\ disk_got' = Analyzed(sym, fresh, -1, "none", g, FALSE,
                                           "untried", FALSE)
                   /\ UNCHANGED <<now, files, disk_saved>>
              ELSE /\ files' = fs1
                   /\ disk_saved' = sv1
                   /\ now' = p.time
                   /\ disk_got' =
                         IF Falsy(used.price)
                         THEN Analyzed(sym, fresh, -1, "none", g, TRUE,
                                       p.source, c)
                         ELSE Analyzed(sym, fresh, used.price, used.source, g,
                                       TRUE, p.source, c)
    /\ disk_ops' = disk_ops + 1
    /\ UNCHANGED <<disk_waits, routerVars, clientVars, cacheVars, stockVars, strategyVars>>

AnalyzeNext ==
    \/ DiskTick
    \/ AnalyzeStock

DiskNext ==
    \/ DiskTick
    \/ ClientSaveToCache
    \/ ClientLoadFromCache
    \/ AnalyzeSaveToCache
    \/ AnalyzeLoadFromCache
    \/ BacktestSaveToCache
    \/ BacktestLoadFromCache
    \/ AlertGetStockPrice
    \/ AlertGetSharesOutstanding

\* ------------------------------------- get_stock_data, get_multiple_stocks
\* the symbol lists get_multiple_stocks is called with
BatchInputs ==
    {<<"MARA", "MSTR", "RIOT">>, <<"MARA", "MARA">>}

\* What session.get produces for a quoteSummary request.
StockResponses ==
    {r \in ClientResponses :
        \/ r.kind = "exception"
        \/ r.status = 200 /\ r.app_json /\ r.body = "json"
        \/ r.status = 403
        \/ r.status = 429 /\ r.retry_after.form = "absent"
        \/ r.status = 429 /\ r.retry_after.form = "int"
                          /\ r.retry_after.val \in {-1, circuit_breaker_timeout}}

\* What the JSON of a valid response holds: a regularMarketPrice, a null or
\* zero price, or a document without quoteSummary.result[0].
StockPayloads == {"price", "no_price", "bad_shape"}
StockPrices == {1}

\* no get_multiple_stocks call in progress; n calls have returned
NoBatch(n) ==
    [pc |-> "idle", symbols |-> <<>>, idx |-> 0, results |-> <<>>,
     log |-> <<>>, n |-> n]

StockInit == batch = NoBatch(0)

\* What one get_stock_data call did: hit, the cache answered; reqs, the HTTP
\* requests it sent; opened, a failure it recorded opened the breaker; priced,
\* a valid response held a price; changed, a cache file was written; result.
StockEntry(sym, hit, log, priced, changed, result) ==
    [symbol |-> sym, hit |-> hit, reqs |-> Len(log),
     opened |-> \E k \in 1..Len(log) :
                    /\ log[k].f_after > log[k].f_before
                    /\ log[k].f_after >= circuit_breaker_threshold,
     priced |-> priced, changed |-> changed, result |-> result]

\* time.sleep(self.min_request_interval) unless symbol == symbols[-1]
PauseAfter(sym, symbols) ==
    IF sym # symbols[Len(symbols)] THEN min_request_interval ELSE 0

\* results[symbol] = data, and the for loop moves on
NextSymbol(b, entry) ==
    [b EXCEPT !.log = Append(@, entry),
              !.results = (entry.symbol :> entry.result) @@ @,
              !.idx = @ + 1,
              !.pc = IF b.idx = Len(b.symbols) THEN "done" ELSE "lookup"]

\* get_multiple_stocks(symbols) is called
GetMultipleStocks ==
    /\ batch.pc = "idle"
    /\ cpc = "idle"
    /\ batch.n < MaxBatches
    /\ \E syms \in BatchInputs :
          batch' = [pc |-> "lookup", symbols |-> syms, idx |-> 1,
                    results |-> <<>>, log |-> <<>>, n |-> batch.n]
    /\ UNCHANGED <<now, routerVars, clientVars, cacheVars, diskVars,
                   strategyVars>>

\* get_stock_data(symbol): the cache is asked first
StockLookup ==
    /\ batch.pc = "lookup"
    /\ LET sym == batch.symbols[batch.idx]
           g == ClientLoad(files, sym, now)
       IN  IF g.hit
           THEN /\ batch' = NextSymbol(batch, StockEntry(sym, TRUE, <<>>, FALSE,
                                                         FALSE, "data"))
                /\ now' = now + PauseAfter(sym, batch.symbols)
           ELSE /\ batch' = [batch EXCEPT !.pc = "request"]
                /\ now' = now
    /\ UNCHANGED <<routerVars, clientVars, cacheVars, diskVars, strategyVars>>

\* response = self._make_request(url)
StockRequest ==
    /\ batch.pc = "request"
    /\ nreq + DefaultMaxRetries <= MaxStockRequests
    /\ EnterCall(DefaultMaxRetries)

\* the request of a get_stock_data call is answered with one of StockResponses
StockAttempt == batch.pc = "request" /\ Attempt(StockResponses)

\* _make_request has returned or raised: the response is parsed, a price is
\* saved, the result is recorded, and the loop pauses before the next symbol
StockFinish ==
    /\ batch.pc = "request"
    /\ cpc = "done"
    /\ \E pl \in StockPayloads, v \in StockPrices :
          LET sym == batch.symbols[batch.idx]
              name == ClientCachePath(sym)
              priced == cresult = "response" /\ pl = "price" /\ ~Falsy(v)
              fs1 == IF priced
                     THEN WriteFile(files, name, DumpStamped(v, now), now)
                     ELSE files
              entry == StockEntry(sym, FALSE, clog, priced, fs1 # files,
                                  IF cresult = "ValueError" THEN "raised"
                                  ELSE IF priced THEN "data" ELSE "None")
          IN  /\ files' = fs1
              /\ disk_saved' = IF priced
                               THEN NoteSave(disk_saved, name, v, now,
                                             "RobustYahooClient")
                               ELSE disk_saved
              /\ IF cresult = "ValueError"
                 THEN /\ batch' = [batch EXCEPT !.pc = "raised",
                                                !.log = Append(@, entry)]
                      /\ now' = now
                 ELSE /\ batch' = NextSymbol(batch, entry)
                      /\ now' = now + PauseAfter(sym, batch.symbols)
    /\ cpc' = "idle"
    /\ ccalls' = ccalls + 1
    /\ cresult' = "none"
    /\ clog' = <<>>
    /\ attempt' = 0
    /\ max_retries' = 0
    /\ UNCHANGED <<circuit_breaker_failures, circuit_breaker_reset_time,
                   last_request_time, cwaits, nreq, last_failure_at,
                   last_issued, disk_got, disk_ops, disk_waits, routerVars,
                   cacheVars, strategyVars>>

\* get_multiple_stocks returns results, or the exception leaves it
BatchReturn ==
    /\ batch.pc \in {"done", "raised"}
    /\ batch' = NoBatch(batch.n + 1)
    /\ UNCHANGED <<now, routerVars, clientVars, cacheVars, diskVars,
                   strategyVars>>

\* time passes between two get_multiple_stocks calls: long enough for the
\* cache files and for a cooldown to run out
StockTick ==
    /\ batch.pc = "idle"
    /\ batch.n > 0
    /\ cpc = "idle"
    /\ cwaits < MaxClientWaits
    /\ now' = now + circuit_breaker_timeout
    /\ cwaits' = cwaits + 1
    /\ UNCHANGED <<circuit_breaker_failures, circuit_breaker_reset_time,
                   last_request_time, cpc, attempt, max_retries, cresult, clog,
                   ccalls, nreq, last_failure_at, last_issued,
                   routerVars, cacheVars, diskVars, stockVars, strategyVars>>

StocksNext ==
    \/ StockTick
    \/ GetMultipleStocks
    \/ StockLookup
    \/ StockRequest
    \/ AttemptBlocked
    \/ StockAttempt
    \/ LoopExhausted
    \/ StockFinish
    \/ BatchReturn

\* ------------------------------------------------------ backtest_strategy
\* a missing value of the series (pd.isna)
NaN == -1
IsNa(v) == v = NaN

\* the rows of mnav_series: mnav and close, either of them possibly missing
StrategyRows ==
    {[mnav |-> NaN, close |-> 1], [mnav |-> 1, close |-> NaN],
     [mnav |-> 1, close |-> 1], [mnav |-> 1, close |-> 2],
     [mnav |-> 2, close |-> 1], [mnav |-> 3, close |-> 1],
     [mnav |-> 3, close |-> 2]}
\* (buy_threshold, sell_threshold)
StrategyThresholds == {<<2, 2>>, <<4, 0>>}

RECURSIVE SeriesUpTo(_)
\* the series of at most n rows
SeriesUpTo(n) ==
    IF n = 0 THEN {<<>>}
    ELSE LET shorter == SeriesUpTo(n - 1)
         IN  shorter \cup {Append(s, r) : s \in {x \in shorter : Len(x) = n - 1},
                                          r \in StrategyRows}

\* (price - current_price) / current_price * 100, kept as an exact quotient
Return(price, current_price) ==
    [num |-> (price - current_price) * 100, den |-> current_price]

\* the locals before the first row
StrategyStart(series, buy, sell) ==
    [mnav_series |-> series, buy_threshold |-> buy, sell_threshold |-> sell,
     row |-> 0, position |-> 0, current_price |-> None, trades |-> <<>>]

\* a loop body that buys below the threshold whether or not it holds
StrategyStepBuysAgain(s, date, r) ==
    IF IsNa(r.mnav) \/ IsNa(r.close) THEN s
    ELSE IF r.mnav < s.buy_threshold
    THEN [s EXCEPT !.position = 1, !.current_price = r.close,
                   !.trades = Append(@, [date |-> date, action |-> "BUY",
                                         price |-> r.close, mnav |-> r.mnav])]
    ELSE IF s.position = 1 /\ r.mnav > s.sell_threshold
    THEN [s EXCEPT !.position = 0, !.current_price = None,
                   !.trades = Append(@, [date |-> date, action |-> "SELL",
                                         price |-> r.close, mnav |-> r.mnav,
                                         return |-> Return(r.close,
                                                           s.current_price)])]
    ELSE s

\* the body of `for date, row in mnav_series.iterrows()` on row r
StrategyStep(s, date, r) ==
    IF IsNa(r.mnav) \/ IsNa(r.close) THEN s
    ELSE IF s.position = 0
    THEN IF r.mnav < s.buy_threshold
         THEN [s EXCEPT !.position = 1, !.current_price = r.close,
                        !.trades = Append(@, [date |-> date, action |-> "BUY",
                                              price |-> r.close,
                                              mnav |-> r.mnav])]
         ELSE s
    ELSE IF s.position = 1
    THEN IF r.mnav > s.sell_threshold
         THEN [s EXCEPT !.position = 0, !.current_price = None,
                        !.trades = Append(@, [date |-> date, action |-> "SELL",
                                              price |-> r.close,
                                              mnav |-> r.mnav,
                                              return |-> Return(r.close,
                                                            s.current_price)])]
         ELSE s
    ELSE s

\* no backtest_strategy call in this behaviour
StrategyInit == strategy = StrategyStart(<<>>, 0, 0)

\* backtest_strategy is called with a series and two thresholds
StrategyCalled ==
    strategy \in {StrategyStart(series, th[1], th[2]) :
                     series \in SeriesUpTo(MaxRows), th \in StrategyThresholds}

\* one iteration of the loop
StrategyRow ==
    /\ strategy.row < Len(strategy.mnav_series)
    /\ LET date == strategy.row + 1
       IN  strategy' = [StrategyStep(strategy, date, strategy.mnav_series[date])
                           EXCEPT !.row = date]
    /\ UNCHANGED <<now, routerVars, clientVars, cacheVars, diskVars, stockVars>>

StrategyNext == StrategyRow

\* everything but backtest_strategy, as constructed
InitServices ==
    /\ now = StartTime
    /\ RouterInit /\ ClientInit /\ CacheInit /\ DiskInit /\ StockInit

Init == InitServices /\ StrategyInit

\* a process that only calls backtest_strategy
InitStrategy ==
    /\ InitServices
    /\ providers_equity = RouterProviders(TRUE, TRUE)
    /\ StrategyCalled

\* the client alone: the router is constructed and left idle
InitClient == Init /\ providers_equity = RouterProviders(TRUE, TRUE)

RouterNext ==
    \/ RouterTick
    \/ StartEquity
    \/ TryProvider
    \/ RaiseAllFailed
    \/ GetCryptoPrice
    \/ RouterReturn

\* the module-level _cache alone, as a TTLCache(ttl_seconds=30)
InitCache == Init /\ providers_equity = RouterProviders(TRUE, TRUE)

SpecRouter == Init /\ [][RouterNext]_vars
SpecCache == InitCache /\ [][CacheNext]_vars
SpecDisk == InitCache /\ [][DiskNext]_vars
SpecBacktest == InitCache /\ [][BacktestNext]_vars
SpecAnalyze == InitCache /\ [][AnalyzeNext]_vars

SpecClient == InitClient /\ [][ClientNext]_vars

SpecStrategy == InitStrategy /\ [][StrategyNext]_vars

\* a process that only calls get_multiple_stocks
SpecStocks == InitClient /\ [][StocksNext]_vars

\* A process fetches prices through the PriceRouter or through a
\* RobustYahooClient; no module of the repository uses both.
RouterUnused == rpc = "idle" /\ rcalls = 0 /\ rwaits = 0
ClientUnused == batch = NoBatch(0) /\ ccalls = 0 /\ cpc = "idle"
FetchNext ==
    \/ ClientUnused /\ RouterNext
    \/ RouterUnused /\ StocksNext
SpecFetch == InitClient /\ [][FetchNext]_vars

\* _make_request calls made back to back
ClientCallsNext ==
    \/ StartRequest
    \/ StartRequestWith
    \/ AttemptBlocked
    \/ AttemptRequest
    \/ LoopExhausted
    \/ ClientReturn

\* The interpreter keeps running a call it has entered: session.get has a
\* timeout and every time.sleep is finite, so an iteration that can be taken
\* is taken.
SpecClientLive ==
    /\ InitClient
    /\ [][ClientCallsNext]_vars
    /\ WF_vars(AttemptBlocked \/ AttemptRequest \/ LoopExhausted)

\* ------------------------------------------------- router properties
InEquityCall == rpc \in {"equity", "done"} /\ rsymbol \in Symbols
EquityDone == rpc = "done" /\ rsymbol \in Symbols

\* C1: get_equity_price calls the providers in list order, calls provider
\* i+1 only after provider i raised, returns the value of the first provider
\* that succeeds and calls no provider after it.
C1_OrderedShortCircuit ==
    InEquityCall =>
        /\ Len(rlog) <= Len(providers_equity)
        /\ \A i \in 1..Len(rlog) :
              /\ rlog[i].idx = i
              /\ rlog[i].provider = providers_equity[i]
              /\ i < Len(rlog) => ~rlog[i].ok
        /\ rresult.kind = "value" =>
              /\ Len(rlog) >= 1
              /\ rlog[Len(rlog)].ok
              /\ rresult.value = rlog[Len(rlog)].value
        /\ (\E i \in 1..Len(rlog) : rlog[i].ok) =>
              /\ rpc = "done"
              /\ rresult.kind = "value"

\* a call served by the second provider while a third one was never called
C1_Witness ==
    /\ EquityDone
    /\ rresult.kind = "value"
    /\ Len(rlog) = 2
    /\ Len(providers_equity) = 3
    /\ ~rlog[1].ok

\* C2: when every equity provider fails, the call raises the aggregate error
\* carrying the error of the last provider tried, after each provider was
\* tried once; and it raises in no other case.
C2_AggregateCarriesLast ==
    EquityDone =>
        /\ rresult.kind \in {"value", "raised"}
        /\ rresult.kind = "raised" <=>
              /\ Len(rlog) = Len(providers_equity)
              /\ \A i \in 1..Len(rlog) : ~rlog[i].ok
        /\ rresult.kind = "raised" =>
              /\ rresult.err.type = "AllProvidersFailed"
              /\ \A i \in 1..Len(rlog) : rlog[i].provider = providers_equity[i]
              /\ rresult.cause = rlog[Len(rlog)].err

\* all three providers failed and the last error differs from the first
C2_Witness ==
    /\ EquityDone
    /\ rresult.kind = "raised"
    /\ Len(rlog) = 3
    /\ rlog[1].err.type # rlog[3].err.type
    /\ rresult.cause.type = rlog[3].err.type

\* C3: the only error a caller of the router ever sees, from get_equity_price
\* and get_crypto_price alike, is the aggregate all-providers-failed error.
C3_OnlyAggregateEscapes ==
    rresult.kind = "raised" => rresult.err.type = "AllProvidersFailed"

\* ------------------------------------------------- client properties
Last(q) == q[Len(q)]
IsTransport(r) == r.kind = "exception"
Is200(r) == r.kind = "http" /\ r.status = 200
Is429(r) == r.kind = "http" /\ r.status = 429
Is403(r) == r.kind = "http" /\ r.status = 403
IsOtherStatus(r) == r.kind = "http" /\ r.status \notin {200, 429, 403}
\* a 200 whose content type is application/json and whose body is JSON
IsGood200(r) == Is200(r) /\ r.app_json /\ r.body = "json"
IsBad200(r) == Is200(r) /\ ~IsGood200(r)

\* C4: once the failure count since the last success has reached the
\* threshold, the breaker is open at every time before the moment of that
\* failure plus the cooldown; with fewer failures since the last success it is
\* closed.
C4_OpenFromThresholdUntilCooldown ==
    /\ circuit_breaker_failures < circuit_breaker_threshold
         => ~IsCircuitBreakerOpen(circuit_breaker_reset_time, now)
    /\ (/\ circuit_breaker_failures >= circuit_breaker_threshold
        /\ now < last_failure_at + circuit_breaker_timeout)
         => IsCircuitBreakerOpen(circuit_breaker_reset_time, now)

\* exactly threshold failures, and time has passed since the last of them
C4_Witness ==
    /\ circuit_breaker_failures = circuit_breaker_threshold
    /\ now > last_failure_at
    /\ now < last_failure_at + circuit_breaker_timeout
    /\ IsCircuitBreakerOpen(circuit_breaker_reset_time, now)

\* C5: a 200 response with valid JSON leaves the failure count 0 and the
\* breaker closed, whatever they were before the attempt.
C5_SuccessResetsBreaker ==
    /\ \A i \in 1..Len(clog) :
         IsGood200(clog[i].resp) => clog[i].f_after = 0 /\ i = Len(clog)
    /\ (Len(clog) > 0 /\ IsGood200(Last(clog).resp)) =>
         /\ cpc = "done"
         /\ cresult = "response"
         /\ circuit_breaker_failures = 0
         /\ circuit_breaker_reset_time = None
         /\ ~IsCircuitBreakerOpen(circuit_breaker_reset_time, now)

\* a success on a breaker that had opened and whose cooldown had run out
C5_Witness ==
    /\ cpc = "done"
    /\ cresult = "response"
    /\ Len(clog) > 0
    /\ Last(clog).f_before >= circuit_breaker_threshold
    /\ circuit_breaker_failures = 0

\* C6: no request is sent while the breaker is open: the breaker is closed
\* when each request of a call is issued, and an iteration that starts with
\* the breaker open ends the call with None and sends nothing.
C6_NoRequestWhileOpen ==
    [][/\ nreq' # nreq =>
            /\ ~IsCircuitBreakerOpen(circuit_breaker_reset_time, now)
            /\ ~Last(clog').open
       /\ (/\ cpc = "loop"
           /\ attempt < max_retries
           /\ IsCircuitBreakerOpen(circuit_breaker_reset_time, now))
            => /\ nreq' = nreq
               /\ cpc' = "done"
               /\ cresult' = "None"]_vars

\* a retry (not the first attempt) that found the breaker open
C6_Witness ==
    /\ cpc = "done"
    /\ cresult = "None"
    /\ Len(clog) > 0
    /\ Len(clog) < max_retries
    /\ Last(clog).exit = "continue"
    /\ IsCircuitBreakerOpen(circuit_breaker_reset_time, now)

RequiredWait(h) == IF h.form = "int" THEN h.val ELSE 60

\* C8: a 429 records one failure, no further attempt starts before the
\* Retry-After seconds (60 without an integer header) have passed, the retry is
\* the next attempt of the same loop, and a call never makes more than
\* max_retries attempts.
C8_RetryAfterHonoured ==
    /\ Len(clog) <= max_retries
    /\ \A i \in 1..Len(clog) :
         Is429(clog[i].resp) =>
            /\ clog[i].f_after = clog[i].f_before + 1
            /\ i < Len(clog) =>
                 /\ clog[i + 1].attempt = clog[i].attempt + 1
                 /\ clog[i + 1].issued >=
                      clog[i].got + RequiredWait(clog[i].resp.retry_after)
            /\ i = Len(clog) =>
                 now >= clog[i].got + RequiredWait(clog[i].resp.retry_after)

\* a 429 with Retry-After: 5 and one without the header, each followed by a retry
C8_Witness ==
    /\ Len(clog) = 3
    /\ Is429(clog[1].resp)
    /\ clog[1].resp.retry_after = [form |-> "int", val |-> 5]
    /\ Is429(clog[2].resp)
    /\ clog[2].resp.retry_after.form = "absent"
    /\ clog[3].issued >= clog[2].got + 60

\* C9: a 403, or a 200 that fails validation, ends the call: it is the last
\* attempt, it records exactly one failure, and the call returns None.
C9_FatalOutcomes ==
    \A i \in 1..Len(clog) :
        (Is403(clog[i].resp) \/ IsBad200(clog[i].resp)) =>
            /\ i = Len(clog)
            /\ cpc = "done"
            /\ cresult = "None"
            /\ clog[i].f_after = clog[i].f_before + 1
            /\ circuit_breaker_failures = clog[i].f_after

\* a 403 on the second of three allowed attempts
C9_Witness ==
    /\ cpc = "done"
    /\ max_retries = 3
    /\ Len(clog) = 2
    /\ Is403(clog[2].resp)
    /\ cresult = "None"

\* C10: a transport error or other status is retried with exponential
\* backoff; a non-final such attempt records nothing, and the final one, which
\* exhausts the retries, records one failure.
C10_ExhaustionRecordsFailure ==
    \A i \in 1..Len(clog) :
        (IsTransport(clog[i].resp) \/ IsOtherStatus(clog[i].resp)) =>
            /\ clog[i].attempt < max_retries - 1 =>
                 /\ clog[i].f_after = clog[i].f_before
                 /\ i < Len(clog) =>
                      clog[i + 1].issued >= clog[i].got + Pow2(clog[i].attempt)
            /\ clog[i].attempt = max_retries - 1 =>
                 clog[i].f_after = clog[i].f_before + 1

\* C11: no two HTTP requests sent through one RobustYahooClient instance
\* start less than min_request_interval apart, whatever the attempts before
\* them ended in (a transport exception followed by its backoff included).
C11_MinSpacing ==
    \A i \in 1..Len(clog) :
        clog[i].prev # None => clog[i].issued - clog[i].prev >= min_request_interval

\* C14: once get_equity_price(symbol) has returned a price, a second
\* get_equity_price(symbol) begun within the TTL returns that price and sends
\* no HTTP request, whichever provider served the first call.
C14_SecondCallFromCache ==
    (/\ EquityDone
     /\ served.symbol = rsymbol
     /\ rlog # <<>>
     /\ rlog[1].at - served.at <= CacheTTL) =>
        /\ rresult = Returned(served.price)
        /\ \A i \in 1..Len(rlog) : ~rlog[i].http

\* C15: after get_equity_price, every provider whose attempt failed has
\* exactly one failure recorded against it, and a provider that was not
\* attempted has none.
C15_FailuresRecorded ==
    EquityDone =>
        \A j \in 1..Len(providers_equity) :
            LET p == providers_equity[j]
                failed == \E i \in 1..Len(rlog) :
                             rlog[i].provider = p /\ ~rlog[i].ok
                tried == \E i \in 1..Len(rlog) : rlog[i].provider = p
            IN  /\ failed => RecordedFailures(p) = 1
                /\ ~tried => RecordedFailures(p) = 0

\* C16: a provider call whose upstream response is not valid JSON or lacks
\* the price field raises: it returns no value and leaves the cache as it was.
C16_MalformedRaises ==
    \A i \in 1..Len(rlog) :
        rlog[i].malformed =>
            /\ ~rlog[i].ok
            /\ rlog[i].err # NoError
            /\ rlog[i].value = -1
            /\ ~rlog[i].wrote
            /\ (i = Len(rlog) /\ rpc = "done") => rresult.kind = "raised"

\* Coinbase's provider has raised on a payload without the amount
C16_Witness ==
    /\ rpc = "done"
    /\ rsymbol \in Pairs
    /\ rlog[1].malformed
    /\ rlog[1].err.type = "KeyError"
    /\ rresult.kind = "raised"

\* all three equity providers raised on malformed responses
C16_WitnessEquity ==
    /\ EquityDone
    /\ Len(rlog) = 3
    /\ \A i \in 1..3 : rlog[i].malformed
    /\ rresult.kind = "raised"

\* C17: every price the router returns and every price in the ephemeral
\* cache is greater than 0.
C17_PositivePrices ==
    /\ rresult.kind = "value" => rresult.value > 0
    /\ \A k \in CacheKeys : store[k] # NoEntry => store[k].val > 0

\* ----------------------------------------------- TTLCache properties
\* C12: a get(k) no more than ttl after the last set(k, v) returns v, a
\* get(k) more than ttl after it returns None, and so does a get(k) of a key
\* never set; with ttl = 30 a value is returned 29 s after its set and is a
\* miss 31 s after it.
C12_TTLRoundTrip ==
    cache_got # NoGet =>
        LET s == cache_got.set
        IN  /\ s = NoEntry => cache_got.val = -1
            /\ (s # NoEntry /\ cache_got.at - s.ts <= CacheTTL) =>
                   cache_got.val = s.val
            /\ (s # NoEntry /\ cache_got.at - s.ts > CacheTTL) =>
                   cache_got.val = -1

\* a get 29 s after the set has returned the value
C12_Witness ==
    /\ cache_got # NoGet
    /\ cache_got.set # NoEntry
    /\ cache_got.at - cache_got.set.ts = CacheTTL - 1
    /\ cache_got.val = cache_got.set.val

\* a get 31 s after the set has missed
C12_WitnessExpired ==
    /\ cache_got # NoGet
    /\ cache_got.set # NoEntry
    /\ cache_got.at - cache_got.set.ts = CacheTTL + 1
    /\ cache_got.val = -1

\* -------------------------------------------- persistent cache properties
\* C13: no reader of a persistent cache is handed a cached value older than
\* the maximum age of its cache.
C13_NoStaleRead ==
    disk_got.hit => disk_got.age <= disk_got.limit

\* C18: mnav_backtest.load_from_cache(key), called less than the maximum age
\* after save_to_cache(series, key), returns the rows of the series last saved
\* under key, in the same order.
C18_SeriesRoundTrip ==
    (/\ disk_got.reader = "mnav_backtest"
     /\ disk_got.exists
     /\ disk_got.age < disk_got.limit) =>
        /\ disk_got.hit
        /\ disk_got.value = disk_got.saved

\* a two-row series whose timestamps descend has been loaded back
C18_Witness ==
    /\ disk_got.reader = "mnav_backtest"
    /\ disk_got.hit
    /\ disk_got.value = <<<<2, 1>>, <<1, 1>>>>

\* C19: two different logical requests (category, symbol, date range) of
\* mnav_backtest never map to the same cache file: no file is written for two
\* requests, and a request is never answered from a file written for another.
C19_KeysCollisionFree ==
    /\ \A name \in DOMAIN disk_saved : Cardinality(disk_saved[name].by) <= 1
    /\ disk_got.hit => disk_got.by \subseteq {disk_got.reader}

\* C20: with force_fresh set, the stock price analyze_stock uses is never one
\* read from a cache entry.
C20_FreshSkipsCache ==
    (disk_got.reader = "analyze_stock" /\ disk_got.fresh) =>
        disk_got.source # "cache"

\* C21: when the router and yfinance both fail for a symbol, analyze_stock
\* goes on with a cached price or the symbol's estimated price whenever there
\* is one, and returns without a result only when there is neither.
C21_DegradedWhenSourcesFail ==
    (/\ disk_got.reader = "analyze_stock"
     /\ disk_got.btc
     /\ disk_got.tried = "none") =>
        /\ (disk_got.cached \/ disk_got.estimate) =>
               /\ disk_got.source \in {"cache", "estimate"}
               /\ disk_got.value > 0
        /\ ~(disk_got.cached \/ disk_got.estimate) => disk_got.source = "none"

\* C22: with force_real_data set, neither get_historical_stock_data nor
\* get_btc_historical_data returns a fabricated series (mock data or the flat
\* current-price series), whatever earlier runs left in the cache directory.
C22_NoSyntheticWhenForced ==
    ("force" \in DOMAIN disk_got /\ disk_got.force) =>
        /\ ~Synthetic(disk_got.stock)
        /\ ~Synthetic(disk_got.btc)

\* C22, the cache alone: a run with force_real_data that asked for nothing
\* but cache files was handed no fabricated series.
C22_NoSyntheticFromCache ==
    (/\ "force" \in DOMAIN disk_got
     /\ disk_got.force
     /\ disk_got.hit) =>
        ~Synthetic(disk_got.value)

\* the providers of the list, and where one stands in it (0: not in it)
ProviderSet == {providers_equity[i] : i \in 1..Len(providers_equity)}
Position(p) ==
    IF p \in ProviderSet
    THEN CHOOSE i \in 1..Len(providers_equity) : providers_equity[i] = p
    ELSE 0

\* C24: the equity provider list is FMP (exactly when FMP_API_KEY was set),
\* then Alpha Vantage (exactly when ALPHAVANTAGE_API_KEY was set), then Yahoo,
\* always present and last; it is never empty and no router operation
\* changes it.
C24_ProviderOrderFixed ==
    /\ [](/\ Len(providers_equity) >= 1
          /\ Len(providers_equity) = Cardinality(ProviderSet)
          /\ ProviderSet \subseteq {"FMPProvider", "AlphaVantageProvider",
                                    "YahooLastResortProvider"}
          /\ Position("YahooLastResortProvider") = Len(providers_equity)
          /\ ("FMPProvider" \in ProviderSet) <=> env_keys.fmp
          /\ ("AlphaVantageProvider" \in ProviderSet) <=> env_keys.av
          /\ env_keys.fmp => Position("FMPProvider") = 1
          /\ env_keys.av =>
                Position("AlphaVantageProvider") = Len(providers_equity) - 1)
    /\ [][providers_equity' = providers_equity]_vars

\* a router built with the Alpha Vantage key only has served its calls,
\* equity and crypto, and filled its cache
C24_Witness ==
    /\ providers_equity = <<"AlphaVantageProvider", "YahooLastResortProvider">>
    /\ rcalls = MaxRouterCalls
    /\ served # NoServed
    /\ store[CacheKey("CoinbaseSpotProvider", "BTC-USD")] # NoEntry

\* ------------------------------------------- client properties, continued
\* the breaker has opened and its cooldown has run out
CooldownExpired(reset, t) == reset # None /\ t >= reset

\* C23: an iteration of _make_request that finds the cooldown expired sends
\* its request whatever the failure count is, and the outcome of that request
\* alone decides the breaker: a valid 200 closes it with count 0, an invalid
\* 200, a 429 or a 403 opens it for a full cooldown, anything else leaves it
\* as it was; there is no trial state in between.
C23_ExpiredBreakerTriesAgain ==
    [][(/\ cpc = "loop"
        /\ attempt < max_retries
        /\ CooldownExpired(circuit_breaker_reset_time, now)) =>
          /\ nreq' = nreq + 1
          /\ Len(clog') = Len(clog) + 1
          /\ LET e == Last(clog')
             IN  /\ e.f_before = circuit_breaker_failures
                 /\ IsGood200(e.resp) =>
                       /\ circuit_breaker_failures' = 0
                       /\ circuit_breaker_reset_time' = None
                       /\ cpc' = "done"
                       /\ cresult' = "response"
                 /\ (IsBad200(e.resp) \/ Is429(e.resp) \/ Is403(e.resp)) =>
                       /\ circuit_breaker_reset_time' =
                             e.got + circuit_breaker_timeout
                       /\ IsCircuitBreakerOpen(circuit_breaker_reset_time', e.got)
                 /\ (IsTransport(e.resp) \/ IsOtherStatus(e.resp)) =>
                       /\ circuit_breaker_failures' = circuit_breaker_failures
                       /\ circuit_breaker_reset_time' = circuit_breaker_reset_time
       ]_vars

\* the first request of a call made after the cooldown, with the count still
\* at the threshold, succeeded and closed the breaker
C23_Witness ==
    /\ cpc = "done"
    /\ cresult = "response"
    /\ Len(clog) = 1
    /\ clog[1].f_before >= circuit_breaker_threshold
    /\ ~clog[1].open
    /\ circuit_breaker_failures = 0
    /\ circuit_breaker_reset_time = None

\* C25: every _make_request call ends, and it sends at most max_retries HTTP
\* requests, one per iteration, whatever the responses are.
C25_TerminatesWithinMaxRetries ==
    /\ [](Len(clog) <= max_retries /\ attempt <= max_retries)
    /\ [][(nreq' # nreq) = (Len(clog') > Len(clog))
           /\ (nreq' # nreq =>
                 (/\ nreq' = nreq + 1
                  /\ Len(clog') = Len(clog) + 1
                  /\ cpc = "loop"))]_vars
    /\ (cpc = "loop") ~> (cpc = "done")

\* a call that used every one of its three attempts and gave up
C25_Witness ==
    /\ cpc = "done"
    /\ cresult = "None"
    /\ max_retries = DefaultMaxRetries
    /\ Len(clog) = max_retries
    /\ Last(clog).exit = "continue"
    /\ Is429(clog[1].resp)
    /\ IsTransport(clog[2].resp)

\* ---- cache writes
\* a get_stock_data call wrote a cache file only after a valid response that
\* held a price, and a call that returned no data wrote none
StockCacheWrittenOnSuccessOnly ==
    \A i \in 1..Len(batch.log) :
        /\ batch.log[i].changed => batch.log[i].priced /\ batch.log[i].result = "data"
        /\ batch.log[i].result # "data" => ~batch.log[i].changed

\* a provider call set its cache entry only after a fetch that parsed a price
ProviderCacheSetOnSuccessOnly ==
    \A i \in 1..Len(rlog) :
        rlog[i].wrote => rlog[i].ok /\ rlog[i].http /\ ~rlog[i].malformed

\* C26 (as stated): cache entries are created only by a successful fetch, and
\* a call that fails leaves every cache entry unchanged.
C26_FailedCallLeavesEveryEntry ==
    /\ StockCacheWrittenOnSuccessOnly
    /\ ProviderCacheSetOnSuccessOnly
    /\ \A i \in 1..Len(rlog) : ~rlog[i].ok => ~rlog[i].changed

\* C26 (amended): cache entries are created only by a successful fetch; a
\* failing get_stock_data call leaves every cache file unchanged, and a failing
\* provider call sets no entry and leaves the store as its own _cache.get left
\* it, which has dropped the entry of the call's key if that entry had expired.
C26_FailedCallWritesNothing ==
    /\ StockCacheWrittenOnSuccessOnly
    /\ ProviderCacheSetOnSuccessOnly
    /\ \A i \in 1..Len(rlog) : ~rlog[i].ok => ~rlog[i].wrote /\ rlog[i].kept

\* a provider call that failed upstream after its _cache.get had dropped the
\* expired entry of its key
C26_Witness ==
    \E i \in 1..Len(rlog) :
        /\ ~rlog[i].ok /\ rlog[i].http /\ rlog[i].changed
        /\ store[CacheKey(rlog[i].provider, rsymbol)] = NoEntry

\* a get_stock_data call that got a valid response without a price, after an
\* earlier symbol of the batch was fetched and saved
C26_WitnessStock ==
    /\ Len(batch.log) >= 2
    /\ batch.log[1].changed
    /\ \E i \in 2..Len(batch.log) :
          /\ batch.log[i].reqs > 0 /\ batch.log[i].result = "None"
          /\ ~batch.log[i].changed

\* ---- TTLCache, continued
\* the stores st and st2 agree on every key but k
SameButFor(st, st2, k) == \A j \in DOMAIN st : j # k => st2[j] = st[j]

\* C27: get(k) on an expired entry returns a miss and removes exactly the
\* entry for k; get on a live entry or on an absent key leaves the store
\* unchanged; set(k, v) overwrites any prior entry for k, restarts its TTL
\* from the time of the set, and changes no other key.
C27_GetAndSetTouchOneKey ==
    LET c == cache_last
    IN  /\ c.op = "get" =>
              LET e == c.before[c.key]
              IN  IF e # NoEntry /\ c.at - e.ts > CacheTTL
                  THEN /\ c.val = -1
                       /\ c.after[c.key] = NoEntry
                       /\ SameButFor(c.before, c.after, c.key)
                  ELSE c.after = c.before
        /\ c.op = "set" =>
              /\ c.after[c.key] = [val |-> c.val, ts |-> c.at]
              /\ TTLGetValue(c.after, c.key, c.at + CacheTTL) = c.val
              /\ SameButFor(c.before, c.after, c.key)
        /\ c.op # "none" => store = c.after

\* a get that met an expired entry while another key held an entry
C27_Witness ==
    /\ cache_last.op = "get"
    /\ cache_last.before[cache_last.key] # NoEntry
    /\ cache_last.at - cache_last.before[cache_last.key].ts > CacheTTL
    /\ \E j \in KeysUsed : j # cache_last.key /\ cache_last.after[j] # NoEntry

\* a set that replaced an older entry of its key while another key held one
C27_WitnessSet ==
    /\ cache_last.op = "set"
    /\ cache_last.before[cache_last.key] # NoEntry
    /\ cache_last.before[cache_last.key].ts < cache_last.at
    /\ \E j \in KeysUsed : j # cache_last.key /\ cache_last.after[j] # NoEntry

\* a get that met a live entry
C27_WitnessLive ==
    /\ cache_last.op = "get"
    /\ cache_last.val # -1
    /\ cache_last.at > cache_last.before[cache_last.key].ts

\* ---- circuit breaker, continued
\* C28: the failure count is untouched by the cooldown running out: while a
\* reset time is set the count is at or above the threshold, only a request
\* changes the count, and a failure recorded after the cooldown has expired
\* re-opens the breaker for a full cooldown from that failure.
C28_CountSurvivesCooldown ==
    /\ [](circuit_breaker_reset_time # None =>
              circuit_breaker_failures >= circuit_breaker_threshold)
    /\ [][/\ (nreq' = nreq =>
                 circuit_breaker_failures' = circuit_breaker_failures)
          /\ ((/\ CooldownExpired(circuit_breaker_reset_time, now)
               /\ nreq' = nreq + 1
               /\ LET r == Last(clog').resp
                  IN  IsBad200(r) \/ Is429(r) \/ Is403(r)) =>
                 (/\ circuit_breaker_failures' = circuit_breaker_failures + 1
                  /\ circuit_breaker_failures' > circuit_breaker_threshold
                  /\ circuit_breaker_reset_time' =
                        Last(clog').got + circuit_breaker_timeout
                  /\ IsCircuitBreakerOpen(circuit_breaker_reset_time',
                                          Last(clog').got)))
         ]_vars

\* the single request of a call made after the cooldown ran out was answered
\* 403 and the breaker is open again until 1800 s after that answer
C28_Witness ==
    /\ cpc = "done"
    /\ Len(clog) = 1
    /\ Is403(clog[1].resp)
    /\ ~clog[1].open
    /\ clog[1].f_before = circuit_breaker_threshold
    /\ circuit_breaker_failures = circuit_breaker_threshold + 1
    /\ circuit_breaker_reset_time = clog[1].got + circuit_breaker_timeout
    /\ IsCircuitBreakerOpen(circuit_breaker_reset_time, now)

\* ---- get_multiple_stocks
\* the symbols of a list
Elements(s) == {s[i] : i \in 1..Len(s)}

\* once a get_stock_data call of the batch has opened the breaker, every later
\* symbol is answered from the cache or gets None without an HTTP request
NoRequestOnceOpened ==
    \A i \in 1..Len(batch.log) : \A j \in (i + 1)..Len(batch.log) :
        batch.log[i].opened =>
            \/ batch.log[j].hit
            \/ batch.log[j].result = "None" /\ batch.log[j].reqs = 0

\* C29: get_multiple_stocks takes the symbols in input order and returns a
\* mapping with one entry per input symbol; a symbol that fails gets None and
\* the later symbols are still processed; once the breaker has opened during
\* the batch no later symbol causes an HTTP request.
C29_BatchCoversEverySymbol ==
    /\ batch.pc # "raised"
    /\ \A i \in 1..Len(batch.log) :
          /\ batch.log[i].symbol = batch.symbols[i]
          /\ batch.log[i].result \in {"data", "None"}
    /\ batch.pc = "done" =>
          /\ Len(batch.log) = Len(batch.symbols)
          /\ DOMAIN batch.results = Elements(batch.symbols)
          /\ \A i \in 1..Len(batch.log) :
                (\A j \in (i + 1)..Len(batch.log) :
                    batch.log[j].symbol # batch.log[i].symbol) =>
                  batch.results[batch.log[i].symbol] = batch.log[i].result
    /\ NoRequestOnceOpened

\* ---- backtest_strategy
\* the row of the series a trade was made on
TradeRow(t) == strategy.mnav_series[t.date]

\* C30: backtest_strategy holds at most one position: the trades alternate
\* BUY, SELL, BUY, ... from a BUY; a BUY is made only when flat on a row with
\* MNav < buy_threshold, a SELL only when holding on a row with
\* MNav > sell_threshold; a SELL carries the return against the price of the
\* BUY just before it; a row with a missing MNav or close changes nothing.
C30_OnePositionAlternating ==
    /\ [](LET t == strategy.trades
          IN  /\ strategy.position \in {0, 1}
              /\ strategy.position = 1 <=> Len(t) % 2 = 1
              /\ strategy.position = 1 =>
                    strategy.current_price = t[Len(t)].price
              /\ \A i \in 1..Len(t) :
                    /\ t[i].action = IF i % 2 = 1 THEN "BUY" ELSE "SELL"
                    /\ t[i].date <= strategy.row
                    /\ i > 1 => t[i - 1].date < t[i].date
                    /\ ~IsNa(TradeRow(t[i]).mnav) /\ ~IsNa(TradeRow(t[i]).close)
                    /\ t[i].mnav = TradeRow(t[i]).mnav
                    /\ t[i].price = TradeRow(t[i]).close
                    /\ t[i].action = "BUY" =>
                          t[i].mnav < strategy.buy_threshold
                    /\ t[i].action = "SELL" =>
                          /\ t[i].mnav > strategy.sell_threshold
                          /\ t[i].return =
                                [num |-> (t[i].price - t[i - 1].price) * 100,
                                 den |-> t[i - 1].price])
    /\ [][LET r == strategy.mnav_series[strategy'.row]
          IN  /\ strategy'.row = strategy.row + 1
              /\ Len(strategy'.trades) <= Len(strategy.trades) + 1
              /\ SubSeq(strategy'.trades, 1, Len(strategy.trades)) =
                    strategy.trades
              /\ (Len(strategy'.trades) > Len(strategy.trades)) =
                    (strategy'.position # strategy.position)
              /\ (IsNa(r.mnav) \/ IsNa(r.close)) =>
                    /\ strategy'.trades = strategy.trades
                    /\ strategy'.position = strategy.position
                    /\ strategy'.current_price = strategy.current_price
              /\ (strategy.position = 0 /\ ~IsNa(r.close)
                  /\ ~IsNa(r.mnav) /\ r.mnav < strategy.buy_threshold) =>
                    strategy'.position = 1
              /\ (strategy.position = 1 /\ ~IsNa(r.close)
                  /\ ~IsNa(r.mnav) /\ r.mnav > strategy.sell_threshold) =>
                    strategy'.position = 0
         ]_vars

\* a series whose second row lacks the MNav: bought on the first row, still
\* holding over the second and a row at the sell threshold, sold on the fourth
\* at twice the price
C30_Witness ==
    /\ strategy.row = MaxRows
    /\ strategy.buy_threshold = 2 /\ strategy.sell_threshold = 2
    /\ IsNa(strategy.mnav_series[2].mnav)
    /\ strategy.mnav_series[3].mnav = strategy.sell_threshold
    /\ Len(strategy.trades) = 2
    /\ strategy.trades[1].date = 1
    /\ strategy.trades[2].date = 4
    /\ strategy.trades[2].return = [num |-> 100, den |-> 1]
    /\ strategy.position = 0

\* four rows, four trades
C30_WitnessAlternates ==
    /\ Len(strategy.trades) = 4
    /\ strategy.trades[4].action = "SELL"

====
